---- MODULE Spec2Model ----
(***************************************************************************)
(* Meshtastic <-> Telegram bridge: the message relay core.                 *)
(*                                                                         *)
(* Python values are modelled as follows.                                  *)
(*   dict        a function; its keys are its DOMAIN ("{}" is <<>>)        *)
(*   d.get(k)    Opt(d, k): <<>> for None, <<v>> for a value v             *)
(*   str         a sequence of pieces (mesh side) or of characters (chat   *)
(*               side); "" is <<>>; f-strings are concatenations           *)
(* Non-ASCII literals of the source are written in ASCII: the antenna sign *)
(* is "MESH ", the word for node is "Node ", and so on.                    *)
(*                                                                         *)
(* The tables keep the columns the bridge reads back; the timestamps       *)
(* created_at, last_active and Message.timestamp are written and never     *)
(* read, and are left out.                                                 *)
(*                                                                         *)
(* A persistence call (Database.add_user, log_message, update_node, or a   *)
(* query made by a handler) either commits or raises; which calls raise at *)
(* the moment is the environment's choice, db_fail.  A call that raises    *)
(* rolls back and leaves the tables as they were.                          *)
(***************************************************************************)
EXTENDS Integers, Sequences, FiniteSets, TLC

VARIABLES
    config,         \* the loaded configuration (read-only after construction)
    mesh_nodes,     \* MeshtasticMQTTClient.mesh_nodes: node-id -> {'user': ...}
    message_queue,  \* bridge.message_queue: queue.Queue of (action, message)
    db_users,       \* table users:      chat_id -> row
    db_messages,    \* table messages:   sequence of rows (append-only)
    db_nodes,       \* table mesh_nodes: node_id -> row
    clock,          \* datetime.utcnow()
    mqtt_in,        \* the last broker message handled and its classification
    chat_in,        \* the last chat update handled
    chat_out,       \* what the last chat handler replied and published
    job,            \* the delivery job (_process_message_queue) in progress
    enqueued,       \* history: every relay action put on the queue, in order
    executed,       \* history: every relay action the delivery job dequeued
    sent,           \* history: every bot.send_message attempt of the job
    op,             \* name of the last operation that ran
    steps,          \* number of operations that ran
    db_fail,        \* environment: the persistence calls that raise now
    mqtt_thread,    \* the broker client's network loop thread (loop_start)
    phase,          \* where bridge.run() is: polling, or in shutdown()
    session,        \* Database.session: the objects pending in the one
                    \* session, and where each thread is in its call
    message_handlers, \* the message_handlers list of the broker client and
                    \* of the bot
    publish_fails   \* environment: client.publish returns an error code now

vars == <<config, mesh_nodes, message_queue, db_users, db_messages, db_nodes,
          clock, mqtt_in, chat_in, chat_out, job, enqueued, executed,
          sent, op, steps, db_fail, mqtt_thread, phase, session,
          message_handlers, publish_fails>>

(***************************************************************************)
(* Bounds of the model.                                                    *)
(***************************************************************************)
MaxMeshSteps == 2
MaxClassifySteps == 1
MaxChatSteps == 2
MaxLenCfg == 8
MaxSteps == 3
MaxClock == 1
MaxHandlers == 3

(***************************************************************************)
(* Python helpers.                                                         *)
(***************************************************************************)
\* d.get(k): None is <<>>, a value v is <<v>>
Opt(d, k) == IF k \in DOMAIN d THEN <<d[k]>> ELSE <<>>

\* d.get(k, default)
Get(d, k, default) == IF k \in DOMAIN d THEN d[k] ELSE default

\* truth value of an optional number: None and 0 are falsy
Truthy(o) == o # <<>> /\ o[1] # 0

\* needle in haystack, for strings given character by character
IsSubstring(needle, hay) ==
    \E i \in 1..(Len(hay) - Len(needle) + 1) :
        SubSeq(hay, i, i + Len(needle) - 1) = needle

\* dict literal helpers: a one-key dict, and a key present only when given
Key(k, o) == IF o = <<>> THEN <<>> ELSE (k :> o[1])

\* the characters of the topic words the classifier looks for
W_text      == <<"t","e","x","t">>
W_position  == <<"p","o","s","i","t","i","o","n">>
W_telemetry == <<"t","e","l","e","m","e","t","r","y">>
W_nodeinfo  == <<"n","o","d","e","i","n","f","o">>
W_msh       == <<"m","s","h">>
W_json      == <<"j","s","o","n">>
W_context   == <<"c","o","n","t","e","x","t">>

\* "a/b"
Slash(a, b) == a \o <<"/">> \o b

(***************************************************************************)
(* Event Classifier: MeshtasticMQTTClient._get_message_type                *)
(***************************************************************************)
\* mutant: the "type" field is looked at only after every topic word
GetMessageType_TopicFirst(topic, data) ==
    IF IsSubstring(W_text, topic) THEN "text"
    ELSE IF IsSubstring(W_position, topic) THEN "position"
    ELSE IF IsSubstring(W_telemetry, topic) THEN "telemetry"
    ELSE IF IsSubstring(W_nodeinfo, topic) THEN "nodeinfo"
    ELSE IF Opt(data, "type") = <<"sendtext">> THEN "text"
    ELSE IF Opt(data, "type") = <<"position">> THEN "position"
    ELSE "unknown"

GetMessageType(topic, data) ==
    IF IsSubstring(W_text, topic) \/ Opt(data, "type") = <<"sendtext">>
    THEN "text"
    ELSE IF IsSubstring(W_position, topic) \/ Opt(data, "type") = <<"position">>
    THEN "position"
    ELSE IF IsSubstring(W_telemetry, topic)
    THEN "telemetry"
    ELSE IF IsSubstring(W_nodeinfo, topic)
    THEN "nodeinfo"
    ELSE "unknown"

(***************************************************************************)
(* Persistence: models.Database                                            *)
(***************************************************************************)
\* MeshNode(node_id=node_id): every other column NULL, message_count 0
NewMeshNode(id, node_id) ==
    [id |-> id, node_id |-> node_id, long_name |-> <<>>, short_name |-> <<>>,
     hardware_model |-> <<>>, last_seen |-> <<>>, battery_level |-> <<>>,
     latitude |-> <<>>, longitude |-> <<>>, altitude |-> <<>>,
     message_count |-> 0]

\* mutant: the table is rewritten with the one updated row
UpdateNode_Replace(nodes, node_id, node_data, now) ==
    LET node == IF node_id \in DOMAIN nodes THEN nodes[node_id]
                ELSE NewMeshNode(1, node_id)
    IN  (node_id :> [node EXCEPT !.last_seen = <<now>>])

\* Database.update_node: the table after the commit
UpdateNode(nodes, node_id, node_data, now) ==
    LET node == IF node_id \in DOMAIN nodes THEN nodes[node_id]
                ELSE NewMeshNode(Cardinality(DOMAIN nodes) + 1, node_id)
        n1 == IF "user" \in DOMAIN node_data
              THEN [node EXCEPT
                      !.long_name      = Opt(node_data["user"], "longName"),
                      !.short_name     = Opt(node_data["user"], "shortName"),
                      !.hardware_model = Opt(node_data["user"], "hwModel")]
              ELSE node
        n2 == IF "position" \in DOMAIN node_data
              THEN [n1 EXCEPT
                      !.latitude  = Opt(node_data["position"], "latitude"),
                      !.longitude = Opt(node_data["position"], "longitude"),
                      !.altitude  = Opt(node_data["position"], "altitude")]
              ELSE n1
        n3 == IF "deviceMetrics" \in DOMAIN node_data
              THEN [n2 EXCEPT
                      !.battery_level =
                          Opt(node_data["deviceMetrics"], "batteryLevel")]
              ELSE n2
        n4 == [n3 EXCEPT !.last_seen = <<now>>]
    IN  (node_id :> n4) @@ nodes

\* Database.log_message: the tables after the commit
LogMessageRow(direction, chat_id, content, mesh_node, message_type) ==
    [direction |-> direction, chat_id |-> chat_id, mesh_node |-> mesh_node,
     content |-> content, message_type |-> message_type]

\* mutant: every record of a known chat counts, whatever its direction
LogMessageUsers_Always(users, direction, chat_id) ==
    IF chat_id \in DOMAIN users
    THEN [users EXCEPT ![chat_id].message_count = @ + 1]
    ELSE users

LogMessageUsers(users, direction, chat_id) ==
    IF direction = "to_mesh" /\ chat_id \in DOMAIN users
    THEN [users EXCEPT ![chat_id].message_count = @ + 1]
    ELSE users

\* Database.session with nothing pending and both threads between calls
NoSession == [pending |-> <<>>, mesh |-> "idle", chat |-> "idle"]

\* the persistence calls that can raise
DbCalls == {"add_user", "log_message", "update_node", "query"}

\* Database.update_node, lines 134-137: "session.rollback(); raise"
UpdateNodeRaises == "update_node" \in db_fail

\* Database.add_user, lines 78-81: "session.rollback(); raise"
AddUserRaises == "add_user" \in db_fail

\* Database.log_message, lines 100-103: the rollback, and nothing raised
LogMessageFails == "log_message" \in db_fail

\* a session.query(...) made by a handler itself
QueryRaises == "query" \in db_fail

\* mutant: the except clause logs and raises again
TryExcept_Reraise(raised) == raised

\* "try: ... except Exception as e: logger.error(...)": whether the statement
\* raises, given whether its body did
TryExcept(raised) == FALSE

(***************************************************************************)
(* Mesh Inbound Pipeline: bridge._handle_*_message                         *)
(***************************************************************************)
\* mutant: the queue is bounded, Queue(maxsize=1), and a put waits for room
Put_Bounded(item) ==
    /\ Len(message_queue) < 1
    /\ message_queue' = Append(message_queue, item)
    /\ enqueued' = Append(enqueued, item)

\* self.message_queue.put(item) on the unbounded Queue() of line 21
Put(item) ==
    /\ message_queue' = Append(message_queue, item)
    /\ enqueued' = Append(enqueued, item)

NoPut == UNCHANGED <<message_queue, enqueued>>

\* f"Node {from_node}"
NodeLabel(from_node) == <<"Node ", from_node>>

\* mutant: the registry is never consulted
NodeInfoName_LabelOnly(from_node) == NodeLabel(from_node)

\* bridge._handle_text_message, lines 101-106
NodeInfoName(from_node) ==
    IF from_node \in DOMAIN mesh_nodes
    THEN IF "user" \in DOMAIN mesh_nodes[from_node]
         THEN Get(mesh_nodes[from_node]["user"], "longName",
                  NodeLabel(from_node))
         ELSE NodeLabel(from_node)
    ELSE NodeLabel(from_node)

\* f"MESH {node_info}: {text}"
TelegramMessage(node_info, text) == <<"MESH ">> \o node_info \o <<": ">> \o text

\* mutant: the log write comes first and its failure ends the handler
HandleTextMessage_LogFirst(data) ==
    LET payload   == Get(data, "payload", <<>>)
        text      == Get(payload, "text", <<>>)
        from_node == Get(data, "from", "unknown")
    IN  IF text = <<>> \/ LogMessageFails
        THEN /\ NoPut
             /\ UNCHANGED <<mesh_nodes, db_messages, db_nodes, db_users>>
        ELSE /\ Put(<<"broadcast",
                      TelegramMessage(NodeInfoName(from_node), text)>>)
             /\ db_messages' = Append(db_messages,
                    LogMessageRow("from_mesh", 0, text, <<from_node>>, "text"))
             /\ db_users' = LogMessageUsers(db_users, "from_mesh", 0)
             /\ UNCHANGED <<mesh_nodes, db_nodes>>

\* Bridge._handle_text_message
HandleTextMessage(data) ==
    LET payload   == Get(data, "payload", <<>>)
        text      == Get(payload, "text", <<>>)
        from_node == Get(data, "from", "unknown")
    IN  IF text = <<>>
        THEN /\ NoPut
             /\ UNCHANGED <<mesh_nodes, db_messages, db_nodes, db_users>>
        ELSE /\ Put(<<"broadcast",
                      TelegramMessage(NodeInfoName(from_node), text)>>)
             /\ IF LogMessageFails
                THEN UNCHANGED <<db_messages, db_users>>
                ELSE /\ db_messages' = Append(db_messages,
                            LogMessageRow("from_mesh", 0, text, <<from_node>>,
                                          "text"))
                     /\ db_users' = LogMessageUsers(db_users, "from_mesh", 0)
             /\ UNCHANGED <<mesh_nodes, db_nodes>>

\* "if lat and lon"
HasFix(lat, lon) == Truthy(lat) /\ Truthy(lon)

\* the position notice; {lat:.6f}, {lon:.6f}, {alt:.0f} keep the number
PositionMessage(from_node, lat, lon, alt) ==
    <<"POS from ", from_node, " lat ", ToString(lat), " lon ", ToString(lon),
      " alt ", ToString(alt), " m">>

\* mutant: the registry is updated before the coordinates are looked at
HandlePositionMessage_UpdateFirst(data) ==
    LET payload   == Get(data, "payload", <<>>)
        from_node == Get(data, "from", "unknown")
        lat       == Opt(payload, "latitude")
        lon       == Opt(payload, "longitude")
        alt       == Get(payload, "altitude", 0)
    IN  /\ db_nodes' = UpdateNode(db_nodes, from_node,
                                  [position |-> payload], clock)
        /\ IF HasFix(lat, lon)
           THEN Put(<<"notify_admins",
                      PositionMessage(from_node, lat[1], lon[1], alt)>>)
           ELSE NoPut
        /\ UNCHANGED <<mesh_nodes, db_messages, db_users>>

\* mutant: the position notice is broadcast to every user
HandlePositionMessage_Broadcast(data) ==
    LET payload   == Get(data, "payload", <<>>)
        from_node == Get(data, "from", "unknown")
        lat       == Opt(payload, "latitude")
        lon       == Opt(payload, "longitude")
        alt       == Get(payload, "altitude", 0)
    IN  IF HasFix(lat, lon) /\ ~UpdateNodeRaises
        THEN /\ db_nodes' = UpdateNode(db_nodes, from_node,
                                       [position |-> payload], clock)
             /\ Put(<<"broadcast",
                      PositionMessage(from_node, lat[1], lon[1], alt)>>)
             /\ UNCHANGED <<mesh_nodes, db_messages, db_users>>
        ELSE /\ NoPut
             /\ UNCHANGED <<mesh_nodes, db_messages, db_nodes, db_users>>

HandlePositionMessage(data) ==
    LET payload   == Get(data, "payload", <<>>)
        from_node == Get(data, "from", "unknown")
        lat       == Opt(payload, "latitude")
        lon       == Opt(payload, "longitude")
        alt       == Get(payload, "altitude", 0)
    IN  IF HasFix(lat, lon) /\ ~UpdateNodeRaises
        THEN /\ db_nodes' = UpdateNode(db_nodes, from_node,
                                       [position |-> payload], clock)
             /\ Put(<<"notify_admins",
                      PositionMessage(from_node, lat[1], lon[1], alt)>>)
             /\ UNCHANGED <<mesh_nodes, db_messages, db_users>>
        ELSE /\ NoPut
             /\ UNCHANGED <<mesh_nodes, db_messages, db_nodes, db_users>>

HandleNodeinfoMessage(data) ==
    LET from_node == Get(data, "from", "unknown")
        payload   == Get(data, "payload", <<>>)
    IN  /\ mesh_nodes' =
              (from_node :> [user |-> Get(payload, "user", <<>>)]) @@ mesh_nodes
        /\ db_nodes' = IF UpdateNodeRaises THEN db_nodes
                       ELSE UpdateNode(db_nodes, from_node, [user |-> payload],
                                       clock)
        /\ NoPut
        /\ UNCHANGED <<db_messages, db_users>>

\* "if battery_level and battery_level < 20"
LowBattery(battery_level) == Truthy(battery_level) /\ battery_level[1] < 20

\* the low-battery warning
WarningMessage(from_node, battery_level) ==
    <<"LOW BATTERY at ", from_node, ": ", ToString(battery_level), "%">>

HandleTelemetryMessage(data) ==
    LET from_node     == Get(data, "from", "unknown")
        payload       == Get(data, "payload", <<>>)
        battery_level == Opt(payload, "batteryLevel")
    IN  /\ IF LowBattery(battery_level)
           THEN Put(<<"notify_admins",
                      WarningMessage(from_node, battery_level[1])>>)
           ELSE NoPut
        /\ db_nodes' = IF UpdateNodeRaises THEN db_nodes
                       ELSE UpdateNode(db_nodes, from_node,
                                       [deviceMetrics |-> payload], clock)
        /\ UNCHANGED <<mesh_nodes, db_messages, db_users>>

\* what a branch raises to _handle_mqtt_message: the text branch logs after
\* log_message swallowed its error, the nodeinfo and telemetry branches call
\* update_node inside a try, the position branch calls it outside any
\* (line 133)
HandlerRaises(message_type, data) ==
    LET payload == Get(data, "payload", <<>>)
    IN  IF message_type = "position"
        THEN /\ HasFix(Opt(payload, "latitude"), Opt(payload, "longitude"))
             /\ UpdateNodeRaises
        ELSE IF message_type = "nodeinfo" \/ message_type = "telemetry"
        THEN TryExcept(UpdateNodeRaises)
        ELSE FALSE

\* bridge._handle_mqtt_message: the dispatch on the kind
HandleMqttMessage(message_type, data) ==
    IF message_type = "text" THEN HandleTextMessage(data)
    ELSE IF message_type = "position" THEN HandlePositionMessage(data)
    ELSE IF message_type = "nodeinfo" THEN HandleNodeinfoMessage(data)
    ELSE IF message_type = "telemetry" THEN HandleTelemetryMessage(data)
    ELSE /\ NoPut
         /\ UNCHANGED <<mesh_nodes, db_messages, db_nodes, db_users>>

\* what no broker message touches
chatSide == <<config, chat_in, chat_out, job, executed, sent, clock, db_fail,
              phase, session, message_handlers, publish_fails>>

\* the handlers of the bridge itself, which catch what they raise
BridgeHandlers == {"_handle_mqtt_message", "_handle_telegram_message"}

\* the other registered callables, any of which may raise when called
Observers(handlers) ==
    {handlers[i] : i \in DOMAIN handlers} \ BridgeHandlers

\* one call of a registered handler and whether it raised
Invoke(handler, raising) == [handler |-> handler, raised |-> handler \in raising]

\* mutant: the loop over the handlers ends at the first one that raises
RECURSIVE FanOut_StopOnRaise(_, _)
FanOut_StopOnRaise(handlers, raising) ==
    IF handlers = <<>> THEN <<>>
    ELSE IF Head(handlers) \in raising
    THEN <<Invoke(Head(handlers), raising)>>
    ELSE <<Invoke(Head(handlers), raising)>>
         \o FanOut_StopOnRaise(Tail(handlers), raising)

\* "for handler in self.message_handlers: try: handler(...) except Exception":
\* the calls made, in order, when the handlers of raising raise
RECURSIVE FanOut(_, _)
FanOut(handlers, raising) ==
    IF handlers = <<>> THEN <<>>
    ELSE IF TryExcept(Head(handlers) \in raising)
    THEN <<Invoke(Head(handlers), raising)>>
    ELSE <<Invoke(Head(handlers), raising)>>
         \o FanOut(Tail(handlers), raising)

\* add_message_handler of either side: the callable is appended
AddMessageHandler(side, handler) ==
    /\ Len(message_handlers[side]) < MaxHandlers
    /\ message_handlers' = [message_handlers EXCEPT ![side] = Append(@, handler)]
    /\ op' = "add_handler"
    /\ UNCHANGED <<config, mesh_nodes, message_queue, db_users, db_messages,
                   db_nodes, clock, mqtt_in, chat_in, chat_out, job, enqueued,
                   executed, sent, steps, db_fail, mqtt_thread, phase, session,
                   publish_fails>>

\* whether MeshtasticMQTTClient._on_message raises into the network loop:
\* json.loads sits in the outer try (lines 55, 71-74), each handler call in
\* the inner one (lines 65-68), and the bridge's handler in its own
\* (bridge._handle_mqtt_message, lines 79, 89-90)
OnMessageRaises(decode_error, message_type, data) ==
    TryExcept(decode_error
              \/ TryExcept(TryExcept(HandlerRaises(message_type, data))))

\* an exception that leaves the callback ends the network loop thread
AfterCallback(raised) == IF raised THEN "crashed" ELSE mqtt_thread

\* the error the handling of a message wrote to the log
MeshError(message_type, data) ==
    LET payload == Get(data, "payload", <<>>)
    IN  IF message_type = "text"
        THEN IF Get(payload, "text", <<>>) # <<>> /\ LogMessageFails
             THEN "persistence" ELSE "none"
        ELSE IF message_type = "position"
        THEN IF HandlerRaises(message_type, data) THEN "persistence" ELSE "none"
        ELSE IF message_type = "nodeinfo" \/ message_type = "telemetry"
        THEN IF UpdateNodeRaises THEN "persistence" ELSE "none"
        ELSE "none"

\* MeshtasticMQTTClient._on_message for a payload that is a JSON object: the
\* classification, then the registered handlers, the first of which is the
\* bridge's (bridge._register_handlers)
OnMessage(topic, data) ==
    /\ mqtt_thread = "running"
    /\ phase # "closed"
    /\ LET message_type == GetMessageType(topic, data)
       IN  /\ HandleMqttMessage(message_type, data)
           /\ \E raising \in SUBSET Observers(message_handlers.mqtt_client) :
                 mqtt_in' = [topic |-> topic, data |-> data,
                             message_type |-> message_type,
                             error |-> MeshError(message_type, data),
                             invoked |-> FanOut(message_handlers.mqtt_client,
                                                raising)]
           /\ mqtt_thread' =
                  AfterCallback(OnMessageRaises(FALSE, message_type, data))
    /\ op' = "mqtt"
    /\ steps' = steps + 1
    /\ UNCHANGED chatSide

\* _on_message for a payload that is not JSON: json.loads raises
\* JSONDecodeError before any handler is called
OnMalformed(topic) ==
    /\ mqtt_thread = "running"
    /\ phase # "closed"
    /\ mqtt_in' = [topic |-> topic, data |-> <<>>,
                   message_type |-> "undecoded", error |-> "json",
                   invoked |-> <<>>]
    /\ mqtt_thread' = AfterCallback(OnMessageRaises(TRUE, "undecoded", <<>>))
    /\ op' = "mqtt"
    /\ steps' = steps + 1
    /\ NoPut
    /\ UNCHANGED <<mesh_nodes, db_messages, db_nodes, db_users>>
    /\ UNCHANGED chatSide

\* the persistence layer starts or stops failing for one of the calls
DbChanges ==
    /\ \E call \in DbCalls :
          db_fail' = IF call \in db_fail THEN db_fail \ {call}
                     ELSE db_fail \cup {call}
    /\ UNCHANGED <<config, mesh_nodes, message_queue, db_users, db_messages,
                   db_nodes, clock, mqtt_in, chat_in, chat_out, job, enqueued,
                   executed, sent, op, steps, mqtt_thread, phase, session,
                   message_handlers, publish_fails>>

\* time passes between two operations
TimePasses ==
    /\ clock < MaxClock
    /\ clock' = clock + 1
    /\ UNCHANGED <<config, mesh_nodes, message_queue, db_users, db_messages,
                   db_nodes, mqtt_in, chat_in, chat_out, job, enqueued,
                   executed, sent, op, steps, db_fail, mqtt_thread, phase,
                   session, message_handlers, publish_fails>>

(***************************************************************************)
(* Delivery Loop: TelegramBot._process_message_queue, run by the job queue *)
(* every second; the job yields at every await, so broker messages and     *)
(* chat updates interleave with its steps.                                 *)
(***************************************************************************)
\* pc: where the job is; action, recipients, done: the action being executed,
\* its recipients and how many of them were tried; backlog, puts, n: the queue
\* length and the number of puts when the run began, and the number of actions
\* the run has executed (history, read by the claims only)
IdleJob ==
    [pc |-> "idle", action |-> <<>>, recipients |-> <<>>, done |-> 0,
     backlog |-> 0, puts |-> 0, n |-> 0]

\* the rows of a table in primary-key order, as query(...).all() gives them
RECURSIVE RowsById(_, _)
RowsById(table, n) ==
    IF n = 0 THEN <<>>
    ELSE LET k == CHOOSE x \in DOMAIN table : table[x].id = n
         IN  Append(RowsById(table, n - 1), table[k])

AllRows(table) == RowsById(table, Cardinality(DOMAIN table))

\* broadcast_message: the chat-ids of query(User).all()
BroadcastRecipients ==
    LET users == AllRows(db_users)
    IN  IF QueryRaises THEN <<>>
        ELSE [i \in 1..Len(users) |-> users[i].chat_id]

\* _notify_admins: config['telegram']['admin_ids']
AdminRecipients == config.admin_ids

\* the recipients of a dequeued action (lines 84-87)
Recipients(item) ==
    IF item[1] = "broadcast" THEN BroadcastRecipients
    ELSE IF item[1] = "notify_admins" THEN AdminRecipients
    ELSE <<>>

\* what a step of the job leaves alone
jobFrame == <<config, mesh_nodes, db_users, db_messages, db_nodes, clock,
              mqtt_in, chat_in, chat_out, enqueued, steps, db_fail, mqtt_thread,
              phase, session, message_handlers, publish_fails>>

\* mutant: "if not self.message_queue: return" takes the queue for empty
JobStart_QueueFalsy ==
    /\ phase = "running"
    /\ job.pc = "idle"
    /\ job' = [IdleJob EXCEPT !.backlog = Len(message_queue),
                              !.puts = Len(enqueued)]
    /\ sent' = <<>>
    /\ op' = "job_start"
    /\ UNCHANGED <<message_queue, executed>>
    /\ UNCHANGED jobFrame

\* the job queue starts a run of _process_message_queue
JobStart ==
    /\ phase = "running"
    /\ job.pc = "idle"
    /\ job' = [IdleJob EXCEPT !.pc = "drain",
                              !.backlog = Len(message_queue),
                              !.puts = Len(enqueued)]
    /\ sent' = <<>>
    /\ op' = "job_start"
    /\ UNCHANGED <<message_queue, executed>>
    /\ UNCHANGED jobFrame

\* the send loop of one action is over: back to get_nowait
AfterSend(recipients, done) ==
    IF done = Len(recipients) THEN "drain" ELSE "send"

\* mutant: the newest action is taken first
JobGet_Lifo ==
    /\ phase = "running"
    /\ job.pc = "drain"
    /\ IF message_queue = <<>>
       THEN /\ job' = [job EXCEPT !.pc = "idle"]
            /\ op' = "job_end"
            /\ UNCHANGED <<message_queue, executed>>
       ELSE LET item == message_queue[Len(message_queue)]
                recipients == Recipients(item)
            IN  /\ message_queue' = SubSeq(message_queue, 1,
                                           Len(message_queue) - 1)
                /\ executed' = Append(executed, item)
                /\ job' = [job EXCEPT !.pc = AfterSend(recipients, 0),
                                       !.action = item,
                                       !.recipients = recipients,
                                       !.done = 0,
                                       !.n = @ + 1]
                /\ op' = "job_get"
    /\ UNCHANGED sent
    /\ UNCHANGED jobFrame

\* get_nowait(): the next action and its recipients, or Empty and the end
JobGet ==
    /\ phase = "running"
    /\ job.pc = "drain"
    /\ IF message_queue = <<>>
       THEN /\ job' = [job EXCEPT !.pc = "idle"]
            /\ op' = "job_end"
            /\ UNCHANGED <<message_queue, executed>>
       ELSE LET item == Head(message_queue)
                recipients == Recipients(item)
            IN  /\ message_queue' = Tail(message_queue)
                /\ executed' = Append(executed, item)
                /\ job' = [job EXCEPT !.pc = AfterSend(recipients, 0),
                                       !.action = item,
                                       !.recipients = recipients,
                                       !.done = 0,
                                       !.n = @ + 1]
                /\ op' = "job_get"
    /\ UNCHANGED sent
    /\ UNCHANGED jobFrame

\* TelegramBot.send_message: the attempt, whose failure is logged only
SendMessage(chat_id, text, ok) == [chat_id |-> chat_id, text |-> text, ok |-> ok]

\* mutant: a failed send ends the loop over the recipients
NextRecipient_StopOnFailure(j, ok) ==
    IF ok
    THEN [j EXCEPT !.done = @ + 1, !.pc = AfterSend(j.recipients, j.done + 1)]
    ELSE [j EXCEPT !.done = @ + 1, !.pc = "drain"]

\* the loop over the recipients after a send that succeeded or failed
NextRecipient(j, ok) ==
    [j EXCEPT !.done = @ + 1, !.pc = AfterSend(j.recipients, j.done + 1)]

\* one "await self.send_message(...)" of broadcast_message / _notify_admins
JobSend ==
    /\ phase = "running"
    /\ job.pc = "send"
    /\ \E ok \in BOOLEAN :
          /\ sent' = Append(sent, SendMessage(job.recipients[job.done + 1],
                                              job.action[2], ok))
          /\ job' = NextRecipient(job, ok)
    /\ op' = "job_send"
    /\ UNCHANGED <<message_queue, executed>>
    /\ UNCHANGED jobFrame

(***************************************************************************)
(* Chat Inbound Pipeline: the handlers of TelegramBot.  A handler's result *)
(* is the tables it leaves, its replies and its mesh publishes.            *)
(***************************************************************************)
Result(users, messages, replies, published) ==
    [users |-> users, messages |-> messages, replies |-> replies,
     published |-> published, raised |-> FALSE,
     effects |-> [i \in 1..Len(replies) |-> "reply"]
                 \o [i \in 1..Len(published) |-> "publish"]]

\* the order in which the handler made its replies and publishes
InOrder(r, effects) == [r EXCEPT !.effects = effects]

\* the handler ended by an exception that nothing in it caught
Raised(r) == [r EXCEPT !.raised = TRUE]

\* update.message.reply_text(...): the fixed texts by name, with their data
Reply(text) == [text |-> text, data |-> <<>>]
ReplyWith(text, data) == [text |-> text, data |-> data]

\* mutant: the allow-list is not consulted
CheckAccess_Open(chat_id) == TRUE

\* TelegramBot._check_access
CheckAccess(chat_id) ==
    LET allowed_chats == config.allowed_chats
    IN  IF allowed_chats = {} THEN TRUE ELSE chat_id \in allowed_chats

\* Database.add_user: the table after the commit
AddUser(users, chat_id, username, first_name, last_name, is_admin) ==
    IF chat_id \in DOMAIN users
    THEN users
    ELSE (chat_id :> [id |-> Cardinality(DOMAIN users) + 1,
                      chat_id |-> chat_id, username |-> username,
                      first_name |-> first_name, last_name |-> last_name,
                      is_admin |-> is_admin, is_approved |-> TRUE,
                      message_count |-> 0]) @@ users

\* Database.log_message from a chat handler (mesh_node=None)
LogFromChat(r, direction, chat_id, content, message_type) ==
    IF LogMessageFails THEN r
    ELSE
    [r EXCEPT
       !.messages = Append(@, LogMessageRow(direction, chat_id, content, <<>>,
                                            message_type)),
       !.users = LogMessageUsers(@, direction, chat_id),
       !.effects = Append(@, "log")]

\* chat_id in config['telegram']['admin_ids']
IsConfiguredAdmin(chat_id) ==
    \E i \in 1..Len(config.admin_ids) : config.admin_ids[i] = chat_id

\* TelegramBot._start_command
StartCommand(u) ==
    IF ~CheckAccess(u.chat_id)
    THEN Result(db_users, db_messages, <<Reply("access denied")>>, <<>>)
    ELSE IF AddUserRaises
    THEN Raised(Result(db_users, db_messages, <<>>, <<>>))
    ELSE LogFromChat(
            Result(AddUser(db_users, u.chat_id, Opt(u.user, "username"),
                           Opt(u.user, "first_name"), Opt(u.user, "last_name"),
                           IsConfiguredAdmin(u.chat_id)),
                   db_messages, <<Reply(config.welcome_message)>>, <<>>),
            "command", u.chat_id, <<"/start">>, "text")

\* TelegramBot._help_command
HelpCommand(u) ==
    LogFromChat(Result(db_users, db_messages, <<Reply("help")>>, <<>>),
                "command", u.chat_id, <<"/help">>, "text")

\* the /nodes listing shows at most this many nodes
NodesShown == 10

\* one entry of the /nodes listing (lines 158-170)
NodeLine(node) ==
    [name |-> IF node.long_name # <<>> THEN node.long_name[1]
              ELSE <<node.node_id>>,
     hardware_model |-> node.hardware_model,
     battery_level |-> IF Truthy(node.battery_level) THEN node.battery_level
                       ELSE <<>>,
     minutes |-> IF node.last_seen # <<>> THEN <<clock - node.last_seen[1]>>
                 ELSE <<>>]

\* TelegramBot._nodes_command
NodesCommand(u) ==
    LET nodes == AllRows(db_nodes)
        shown == IF Len(nodes) > NodesShown THEN NodesShown ELSE Len(nodes)
        more  == IF Len(nodes) > NodesShown THEN <<Len(nodes) - NodesShown>>
                 ELSE <<>>
    IN  IF QueryRaises
        THEN Result(db_users, db_messages, <<Reply("nodes error")>>, <<>>)
        ELSE IF nodes = <<>>
        THEN Result(db_users, db_messages, <<Reply("no node data")>>, <<>>)
        ELSE LogFromChat(
                Result(db_users, db_messages,
                       <<ReplyWith("nodes",
                           <<[i \in 1..shown |-> NodeLine(nodes[i])], more>>)>>,
                       <<>>),
                "command", u.chat_id, <<"/nodes">>, "text")

\* query(Message).filter_by(direction=d).count()
CountDirection(d) ==
    Cardinality({i \in 1..Len(db_messages) : db_messages[i].direction = d})

\* TelegramBot._stats_command
StatsCommand(u) ==
    IF QueryRaises
    THEN Result(db_users, db_messages, <<Reply("stats error")>>, <<>>)
    ELSE
    LogFromChat(
        Result(db_users, db_messages,
               <<ReplyWith("stats",
                   [total_users |-> Cardinality(DOMAIN db_users),
                    active_users |-> Cardinality(DOMAIN db_users),
                    to_mesh |-> CountDirection("to_mesh"),
                    from_mesh |-> CountDirection("from_mesh"),
                    total_nodes |-> Cardinality(DOMAIN db_nodes)])>>,
               <<>>),
        "command", u.chat_id, <<"/stats">>, "text")

\* TelegramBot._location_command
LocationCommand(u) ==
    Result(db_users, db_messages, <<Reply("send your location")>>, <<>>)

\* mutant: every registered user gets the panel
AdminCommand_AnyUser(u) ==
    IF QueryRaises
    THEN Result(db_users, db_messages, <<Reply("rights check error")>>, <<>>)
    ELSE IF u.chat_id \notin DOMAIN db_users
    THEN Result(db_users, db_messages, <<Reply("not enough rights")>>, <<>>)
    ELSE Result(db_users, db_messages, <<Reply("admin panel")>>, <<>>)

\* TelegramBot._admin_command
AdminCommand(u) ==
    IF QueryRaises
    THEN Result(db_users, db_messages, <<Reply("rights check error")>>, <<>>)
    ELSE IF u.chat_id \notin DOMAIN db_users \/ ~db_users[u.chat_id].is_admin
    THEN Result(db_users, db_messages, <<Reply("not enough rights")>>, <<>>)
    ELSE Result(db_users, db_messages, <<Reply("admin panel")>>, <<>>)

\* "user.first_name or user.username or 'Unknown'"
SenderName(user) ==
    IF Get(user, "first_name", <<>>) # <<>> THEN user["first_name"]
    ELSE IF Get(user, "username", <<>>) # <<>> THEN user["username"]
    ELSE <<"U","n","k","n","o","w","n">>

\* str.format(user=..., message=...) on a template given part by part
RECURSIVE Format(_, _, _)
Format(template, user, message) ==
    IF template = <<>> THEN <<>>
    ELSE LET part == Head(template)
             text == IF part = "{user}" THEN user
                     ELSE IF part = "{message}" THEN message
                     ELSE <<part>>
         IN  text \o Format(Tail(template), user, message)

\* s[:k] of Python: a negative k counts from the end
Slice(s, k) ==
    LET stop == IF k < 0 THEN Len(s) + k ELSE k
        n    == IF stop < 0 THEN 0 ELSE IF stop > Len(s) THEN Len(s) ELSE stop
    IN  SubSeq(s, 1, n)

\* lines 270-273: the text handed to the mesh
Truncate(formatted_text, max_len) ==
    IF Len(formatted_text) > max_len
    THEN Slice(formatted_text, max_len - 3) \o <<".", ".", ".">>
    ELSE formatted_text

\* MeshtasticMQTTClient.send_text_message: the message published
SendTextMessage(text) ==
    [type |-> "sendtext", text |-> text, destination |-> "^all", channel |-> 0,
     latitude |-> <<>>, longitude |-> <<>>, altitude |-> <<>>]

\* MeshtasticMQTTClient.send_position: the message published
SendPosition(lat, lon) ==
    [type |-> "position", text |-> <<>>, destination |-> <<>>, channel |-> <<>>,
     latitude |-> <<lat>>, longitude |-> <<lon>>, altitude |-> <<0>>]

\* mutant: the confirmation is sent before the text is handed to the mesh
TextMessage_ConfirmFirst(u) ==
    IF ~CheckAccess(u.chat_id)
    THEN Result(db_users, db_messages, <<Reply("access denied")>>, <<>>)
    ELSE LET formatted_text == Format(config.message_format,
                                      SenderName(u.user), u.text)
             max_len == config.max_message_length
             notice  == IF Len(formatted_text) > max_len
                        THEN <<Reply("message truncated")>> ELSE <<>>
         IN  LogFromChat(
                Result(db_users, db_messages,
                       notice \o <<Reply("sent to mesh")>>,
                       <<SendTextMessage(Truncate(formatted_text, max_len))>>),
                "to_mesh", u.chat_id, u.text, "text")

\* TelegramBot._text_message: the truncation notice (line 273), the handler
\* loop (275-280), the confirmation (282), the log write (283)
TextMessage(u) ==
    IF ~CheckAccess(u.chat_id)
    THEN Result(db_users, db_messages, <<Reply("access denied")>>, <<>>)
    ELSE LET formatted_text == Format(config.message_format,
                                      SenderName(u.user), u.text)
             max_len == config.max_message_length
             notice  == IF Len(formatted_text) > max_len
                        THEN <<Reply("message truncated")>> ELSE <<>>
         IN  LogFromChat(
                InOrder(
                   Result(db_users, db_messages,
                          notice \o <<Reply("sent to mesh")>>,
                          <<SendTextMessage(Truncate(formatted_text,
                                                     max_len))>>),
                   [i \in 1..Len(notice) |-> "reply"]
                   \o <<"publish", "reply">>),
                "to_mesh", u.chat_id, u.text, "text")

\* mutant: the position-sharing switch is not consulted
LocationMessage_IgnoresSwitch(u) ==
    IF ~CheckAccess(u.chat_id)
    THEN Result(db_users, db_messages, <<Reply("access denied")>>, <<>>)
    ELSE LET lat == u.location.latitude
             lon == u.location.longitude
         IN  LogFromChat(
                InOrder(
                   Result(db_users, db_messages,
                          <<ReplyWith("location sent", <<lat, lon>>)>>,
                          <<SendPosition(lat, lon)>>),
                   <<"publish", "reply">>),
                "to_mesh", u.chat_id,
                <<"POSITION: ", ToString(lat), ", ", ToString(lon)>>, "position")

\* TelegramBot._location_message
LocationMessage(u) ==
    IF ~CheckAccess(u.chat_id)
    THEN Result(db_users, db_messages, <<Reply("access denied")>>, <<>>)
    ELSE IF ~config.enable_position_sharing
    THEN Result(db_users, db_messages, <<Reply("position sharing off")>>, <<>>)
    ELSE LET lat == u.location.latitude
             lon == u.location.longitude
         IN  LogFromChat(
                InOrder(
                   Result(db_users, db_messages,
                          <<ReplyWith("location sent", <<lat, lon>>)>>,
                          <<SendPosition(lat, lon)>>),
                   <<"publish", "reply">>),
                "to_mesh", u.chat_id,
                <<"POSITION: ", ToString(lat), ", ", ToString(lon)>>, "position")

\* TelegramBot._register_handlers: the handler an update is dispatched to
Dispatch(u) ==
    IF u.handler = "start" THEN StartCommand(u)
    ELSE IF u.handler = "help" THEN HelpCommand(u)
    ELSE IF u.handler = "nodes" THEN NodesCommand(u)
    ELSE IF u.handler = "stats" THEN StatsCommand(u)
    ELSE IF u.handler = "location" THEN LocationCommand(u)
    ELSE IF u.handler = "admin" THEN AdminCommand(u)
    ELSE IF u.handler = "text_message" THEN TextMessage(u)
    ELSE LocationMessage(u)

\* self.client.publish(topic, json.dumps(message)): the code it returns,
\* which send_text_message and send_position log and keep to themselves
Publish(message) == IF publish_fails THEN "MQTT_ERR" ELSE "MQTT_ERR_SUCCESS"

\* the broker connection is lost or comes back
BrokerChanges ==
    /\ publish_fails' = ~publish_fails
    /\ UNCHANGED <<config, mesh_nodes, message_queue, db_users, db_messages,
                   db_nodes, clock, mqtt_in, chat_in, chat_out, job, enqueued,
                   executed, sent, op, steps, db_fail, mqtt_thread, phase,
                   session, message_handlers>>

\* whether the handler of the update reaches its loop over message_handlers:
\* a text after the access check, a location after it and the sharing switch
Relays(u) ==
    /\ u.handler \in {"text_message", "location_message"}
    /\ CheckAccess(u.chat_id)
    /\ u.handler = "location_message" => config.enable_position_sharing

\* the chat transport delivers an update to its handler
OnUpdate(u) ==
    /\ phase = "running"
    /\ LET r == Dispatch(u)
       IN  /\ db_users' = r.users
           /\ db_messages' = r.messages
           /\ \E raising \in SUBSET Observers(message_handlers.telegram_bot) :
                 chat_out' = [replies |-> r.replies,
                              published |-> r.published,
                              raised |-> r.raised,
                              effects |-> r.effects,
                              results |-> [i \in DOMAIN r.published |->
                                             Publish(r.published[i])],
                              invoked |-> IF Relays(u)
                                          THEN FanOut(
                                                 message_handlers.telegram_bot,
                                                 raising)
                                          ELSE <<>>]
    /\ chat_in' = u
    /\ op' = "chat"
    /\ steps' = steps + 1
    /\ UNCHANGED <<config, mesh_nodes, message_queue, db_nodes, clock, mqtt_in,
                   job, enqueued, executed, sent, db_fail, mqtt_thread, phase,
                   session, message_handlers, publish_fails>>

(***************************************************************************)
(* Database.session: the one Session object, created in Database.__init__  *)
(* and used by the broker's network thread (log_message, update_node) and  *)
(* by the chat event loop (add_user, log_message) without a lock.  A       *)
(* Database method stages its changes in the session (session.add, the     *)
(* attribute assignments) and then commits, or rolls back when the call    *)
(* raises; the commit and the rollback act on everything the session       *)
(* holds.  The two threads interleave between these steps.                 *)
(***************************************************************************)
\* a call of a Database method with its arguments
Call(name, args) == [call |-> name, args |-> args]

\* the tables after the change staged by one call is flushed
Flush(tables, c) ==
    IF c.call = "log_message"
    THEN [tables EXCEPT
            !.messages = Append(@, LogMessageRow(c.args[1], c.args[2],
                                                 c.args[3], c.args[4], "text")),
            !.users = LogMessageUsers(@, c.args[1], c.args[2])]
    ELSE IF c.call = "update_node"
    THEN [tables EXCEPT
            !.nodes = UpdateNode(@, c.args[1], c.args[2], c.args[3])]
    ELSE [tables EXCEPT
            !.users = AddUser(@, c.args[1], c.args[2], c.args[3], c.args[4],
                              c.args[5])]

\* session.commit(): every pending change is flushed, in the order staged
RECURSIVE FlushAll(_, _)
FlushAll(tables, pending) ==
    IF pending = <<>> THEN tables
    ELSE FlushAll(Flush(tables, Head(pending)), Tail(pending))

\* what a step of a Database method leaves alone
sessionFrame == <<config, mesh_nodes, message_queue, clock, mqtt_in, chat_in,
                  chat_out, job, enqueued, executed, sent, db_fail,
                  mqtt_thread, phase, message_handlers, publish_fails>>

\* thread t enters a Database method, which stages its changes
SessionStage(t, c) ==
    /\ session[t] = "idle"
    /\ session' = [session EXCEPT
                      ![t] = c.call,
                      !.pending = Append(@, [by |-> t, call |-> c.call,
                                             args |-> c.args])]
    /\ op' = "stage"
    /\ steps' = steps + 1
    /\ UNCHANGED <<db_users, db_messages, db_nodes>>
    /\ UNCHANGED sessionFrame

\* thread t reaches the end of its method: session.commit(), or
\* session.rollback() in the except clause when the call raised
SessionCommit(t) ==
    /\ session[t] # "idle"
    /\ session' = [session EXCEPT ![t] = "idle", !.pending = <<>>]
    /\ IF session[t] \in db_fail
       THEN /\ op' = "rollback"
            /\ UNCHANGED <<db_users, db_messages, db_nodes>>
       ELSE LET tables == FlushAll([users |-> db_users,
                                    messages |-> db_messages,
                                    nodes |-> db_nodes], session.pending)
            IN  /\ op' = "commit"
                /\ db_users' = tables.users
                /\ db_messages' = tables.messages
                /\ db_nodes' = tables.nodes
    /\ UNCHANGED steps
    /\ UNCHANGED sessionFrame

(***************************************************************************)
(* Shutdown: bridge.run and bridge.shutdown.  telegram_bot.run() blocks in  *)
(* run_polling; when it returns or raises, the chat event loop is over (no *)
(* update is handled and no job step runs any more) and the finally clause *)
(* calls shutdown().  The broker's network loop is a thread of its own and *)
(* runs until loop_stop() has stopped it; run() returns after shutdown()   *)
(* and the process ends.                                                   *)
(***************************************************************************)
\* what a step of the shutdown sequence leaves alone
shutdownFrame == <<config, mesh_nodes, message_queue, db_users, db_messages,
                   db_nodes, clock, mqtt_in, chat_in, chat_out, job, enqueued,
                   executed, sent, steps, db_fail, message_handlers,
                   publish_fails>>

\* telegram_bot.run() is over, for a stop signal or an error: "finally:
\* self.shutdown()", whatever the queue holds and wherever the job is
Shutdown ==
    /\ phase = "running"
    /\ phase' = "shutdown"
    /\ op' = "shutdown"
    /\ UNCHANGED <<mqtt_thread, session>>
    /\ UNCHANGED shutdownFrame

\* mutant: the disconnect is not inside a try, and its failure ends
\* shutdown() before the session is closed
Disconnect_Unguarded ==
    /\ phase = "shutdown"
    /\ \E ok \in BOOLEAN :
          IF ok
          THEN /\ mqtt_thread' = "stopped"
               /\ phase' = "closing"
               /\ op' = "disconnect"
          ELSE /\ mqtt_thread' \in {mqtt_thread, "stopped"}
               /\ phase' = "closed"
               /\ op' = "disconnect_failed"
    /\ UNCHANGED session
    /\ UNCHANGED shutdownFrame

\* "try: self.mqtt_client.disconnect() except ...: log": loop_stop() and
\* client.disconnect().  When it succeeds the network loop is stopped; when
\* it raises, the loop is stopped or not, as loop_stop() got through or not
Disconnect ==
    /\ phase = "shutdown"
    /\ \E ok \in BOOLEAN :
          IF ok
          THEN /\ mqtt_thread' = "stopped"
               /\ op' = "disconnect"
          ELSE /\ mqtt_thread' \in {mqtt_thread, "stopped"}
               /\ op' = "disconnect_failed"
    /\ phase' = "closing"
    /\ UNCHANGED session
    /\ UNCHANGED shutdownFrame

\* "try: self.database.session.close() except ...: log"; run() returns
CloseSession ==
    /\ phase = "closing"
    /\ phase' = "closed"
    /\ session' = NoSession
    /\ op' = "close"
    /\ UNCHANGED mqtt_thread
    /\ UNCHANGED shutdownFrame

(***************************************************************************)
(* Construction, inputs and specifications.                                *)
(***************************************************************************)
\* the message template of the configuration: "# {user}: {message}"
MessageFormat == <<"#", " ", "{user}", ":", " ", "{message}">>

\* a configuration: every chat admitted, one admin, position sharing on
DefaultConfig ==
    [allowed_chats |-> {}, admin_ids |-> <<1>>, max_message_length |-> 100,
     message_format |-> MessageFormat, enable_position_sharing |-> TRUE,
     welcome_message |-> "welcome"]

NoMqtt == [topic |-> <<>>, data |-> <<>>, message_type |-> "none",
           error |-> "none", invoked |-> <<>>]
NoUpdate == [handler |-> "none", chat_id |-> 0, user |-> <<>>, text |-> <<>>,
             location |-> <<>>]

\* Bridge._register_handlers: one handler of the bridge on each side
RegisterHandlers ==
    [mqtt_client |-> <<"_handle_mqtt_message">>,
     telegram_bot |-> <<"_handle_telegram_message">>]

\* the bridge after MeshtasticTelegramBridge.__init__ under a configuration,
\* connected to the broker and polling (bridge.run, lines 200-204)
InitWith(configs) ==
    /\ config \in configs
    /\ mesh_nodes = <<>>
    /\ message_queue = <<>>
    /\ db_users = <<>>
    /\ db_messages = <<>>
    /\ db_nodes = <<>>
    /\ clock = 0
    /\ mqtt_in = NoMqtt
    /\ chat_in = NoUpdate
    /\ chat_out = [replies |-> <<>>, published |-> <<>>, raised |-> FALSE,
                   effects |-> <<>>, results |-> <<>>, invoked |-> <<>>]
    /\ job = IdleJob
    /\ enqueued = <<>>
    /\ executed = <<>>
    /\ sent = <<>>
    /\ op = "init"
    /\ steps = 0
    /\ db_fail = {}
    /\ mqtt_thread = "running"
    /\ phase = "running"
    /\ session = NoSession
    /\ message_handlers = RegisterHandlers
    /\ publish_fails = FALSE

\* a decoded broker message: {"type": ..., "from": ..., "payload": ...}
Data(type, from, payload) ==
    Key("type", type) @@ Key("from", from) @@ ("payload" :> payload)

Message(topic, data) == [topic |-> topic, data |-> data]

T_text      == Slash(W_msh, W_text)
T_position  == Slash(W_msh, W_position)
T_telemetry == Slash(W_msh, W_telemetry)
T_nodeinfo  == Slash(W_msh, W_nodeinfo)
T_json      == Slash(W_msh, W_json)

Senders == {<<>>, <<"!ab12">>}

TextPayloads == {<<>>, [text |-> <<>>], [text |-> <<"hello">>]}

PositionPayloads ==
    {Key("latitude", lat) @@ Key("longitude", lon) @@ Key("altitude", alt) :
        lat \in {<<>>, <<0>>, <<55>>}, lon \in {<<>>, <<0>>, <<37>>},
        alt \in {<<>>}}
    \cup {[latitude |-> 55, longitude |-> 37, altitude |-> 120]}

BatteryLevels == {0, 1, 19, 20, 100}

TelemetryPayloads == {<<>>} \cup {[batteryLevel |-> b] : b \in BatteryLevels}

NodeInfoPayloads ==
    {<<>>,
     [user |-> [longName |-> <<"Alice">>, shortName |-> <<"AL">>,
                hwModel |-> <<"TBEAM">>]],
     [user |-> [shortName |-> <<"BB">>]]}

\* broker messages on the topic of their kind, and some that only their
\* "type" field or nothing classifies
MeshInputs ==
    {Message(T_text, Data(<<>>, f, p)) : f \in Senders, p \in TextPayloads}
    \cup {Message(T_position, Data(<<>>, f, p)) :
            f \in Senders, p \in PositionPayloads}
    \cup {Message(T_telemetry, Data(<<>>, f, p)) :
            f \in Senders, p \in TelemetryPayloads}
    \cup {Message(T_nodeinfo, Data(<<>>, f, p)) :
            f \in Senders, p \in NodeInfoPayloads}
    \cup {Message(T_json, Data(t, <<"!ab12">>, p)) :
            t \in {<<>>, <<"sendtext">>, <<"position">>},
            p \in {[text |-> <<"hello">>],
                   [latitude |-> 55, longitude |-> 37]}}

InitMesh == InitWith({DefaultConfig})

NextMesh ==
    \/ /\ steps < MaxMeshSteps
       /\ \E m \in MeshInputs : OnMessage(m.topic, m.data)
    \/ TimePasses

SpecMesh == InitMesh /\ [][NextMesh]_vars

\* topics "a/b" over the classifier's words and three others, with every
\* "type" the payload may carry
TopicWords == {W_msh, W_json, W_context, W_text, W_position, W_telemetry,
               W_nodeinfo}

ClassifyInputs ==
    {Message(Slash(a, b), Data(t, <<"!ab12">>, <<>>)) :
        a \in TopicWords, b \in TopicWords,
        t \in {<<>>, <<"sendtext">>, <<"position">>, <<"telemetry">>,
               <<"nodeinfo">>, <<"text">>}}

NextClassify ==
    /\ steps < MaxClassifySteps
    /\ \E m \in ClassifyInputs : OnMessage(m.topic, m.data)

SpecClassify == InitMesh /\ [][NextClassify]_vars

\* a chat update: the handler it is routed to, the chat, the sender and the
\* message text or location
Update(handler, chat_id, user, text, location) ==
    [handler |-> handler, chat_id |-> chat_id, user |-> user, text |-> text,
     location |-> location]

Chats == {1, 2}

Commands == {"start", "help", "nodes", "stats", "location", "admin"}

\* the Telegram account behind each chat
UserOf(chat_id) ==
    IF chat_id = 1
    THEN [first_name |-> <<"A","l">>, username |-> <<"a","l","1">>]
    ELSE [username |-> <<"b","o">>]

Texts == {<<"H">>, <<"H","i">>}

ChatUpdates ==
    {Update(h, c, UserOf(c), <<>>, <<>>) : h \in Commands, c \in Chats}
    \cup {Update("text_message", c, UserOf(c), t, <<>>) :
            c \in Chats, t \in Texts}
    \cup {Update("text_message", 2, <<>>, <<"H">>, <<>>)}
    \cup {Update("location_message", c, UserOf(c), <<>>,
                 [latitude |-> 55, longitude |-> 37]) : c \in Chats}

\* open and restricted access, position sharing on and off, and every
\* maximum length up to the bound
ChatConfigs ==
    {[DefaultConfig EXCEPT !.allowed_chats = a, !.enable_position_sharing = e,
                           !.max_message_length = m] :
        a \in {{}, {1}}, e \in BOOLEAN, m \in 1..MaxLenCfg}

\* the broker messages that fill the tables the commands read
ChatMeshInputs ==
    {Message(T_nodeinfo, Data(<<>>, <<"!ab12">>,
                              [user |-> [longName |-> <<"Alice">>]])),
     Message(T_text, Data(<<>>, <<"!ab12">>, [text |-> <<"hello">>]))}

InitChat == InitWith(ChatConfigs)

NextChat ==
    /\ steps < MaxChatSteps
    /\ \/ \E u \in ChatUpdates : OnUpdate(u)
       \/ \E m \in ChatMeshInputs : OnMessage(m.topic, m.data)

SpecChat == InitChat /\ [][NextChat]_vars

\* the whole bridge: broker messages that enqueue, users that register, and
\* the delivery job
RelayConfigs == {[DefaultConfig EXCEPT !.admin_ids = <<1, 2>>]}

RelayMeshInputs ==
    {Message(T_text, Data(<<>>, <<"!ab12">>, [text |-> <<"hello">>])),
     Message(T_text, Data(<<>>, <<"!ab12">>, <<>>)),
     Message(T_nodeinfo, Data(<<>>, <<"!ab12">>,
                              [user |-> [longName |-> <<"Alice">>]])),
     Message(T_position, Data(<<>>, <<"!ab12">>,
                              [latitude |-> 55, longitude |-> 37])),
     Message(T_telemetry, Data(<<>>, <<"!ab12">>, [batteryLevel |-> 19]))}

RelayUpdates == {Update("start", c, UserOf(c), <<>>, <<>>) : c \in Chats}

Init == InitWith(RelayConfigs)

Next ==
    \/ /\ steps < MaxSteps
       /\ \E m \in RelayMeshInputs : OnMessage(m.topic, m.data)
    \/ /\ steps < MaxSteps
       /\ \E u \in RelayUpdates : OnUpdate(u)
    \/ JobStart
    \/ JobGet
    \/ JobSend

Spec == Init /\ [][Next]_vars

\* ingestion against delivery: broker messages that enqueue, users that
\* register, and the delivery job, which may be anywhere when a message comes
MaxIngestSteps == 3

IngestMeshInputs ==
    {Message(T_text, Data(<<>>, <<"!ab12">>, [text |-> <<"hello">>])),
     Message(T_telemetry, Data(<<>>, <<"!ab12">>, [batteryLevel |-> 19]))}

NextIngest ==
    \/ /\ steps < MaxIngestSteps
       /\ \E m \in IngestMeshInputs : OnMessage(m.topic, m.data)
    \/ /\ steps < MaxIngestSteps
       /\ \E u \in RelayUpdates : OnUpdate(u)
    \/ JobStart
    \/ JobGet
    \/ JobSend

SpecIngest == Init /\ [][NextIngest]_vars

\* the mesh pipeline over a persistence layer that fails and recovers, fed
\* with messages of every kind and with payloads that are not JSON
MaxFaultSteps == 2

FaultMeshInputs ==
    {Message(T_text, Data(<<>>, <<"!ab12">>, [text |-> <<"hello">>])),
     Message(T_text, <<>>),
     Message(T_position, Data(<<>>, <<"!ab12">>,
                              [latitude |-> 55, longitude |-> 37])),
     Message(T_position, Data(<<>>, <<>>, [latitude |-> 55])),
     Message(T_nodeinfo, Data(<<>>, <<"!ab12">>,
                              [user |-> [longName |-> <<"Alice">>]])),
     Message(T_nodeinfo, <<>>),
     Message(T_telemetry, Data(<<>>, <<"!ab12">>, [batteryLevel |-> 19])),
     Message(T_telemetry, Data(<<>>, <<"!ab12">>, <<>>)),
     Message(T_json, Data(<<>>, <<"!ab12">>, [text |-> <<"hello">>]))}

MalformedTopics == {T_text, T_json}

NextFaults ==
    \/ /\ steps < MaxFaultSteps
       /\ \E m \in FaultMeshInputs : OnMessage(m.topic, m.data)
    \/ /\ steps < MaxFaultSteps
       /\ \E topic \in MalformedTopics : OnMalformed(topic)
    \/ DbChanges

SpecFaults == InitMesh /\ [][NextFaults]_vars

\* the chat pipeline over a persistence layer that fails and recovers, with
\* open and restricted access
MaxChatFaultSteps == 3

FaultConfigs == {DefaultConfig, [DefaultConfig EXCEPT !.allowed_chats = {1}]}

FaultUpdates ==
    {Update(h, c, UserOf(c), <<>>, <<>>) : h \in {"start", "admin"}, c \in Chats}
    \cup {Update(h, 1, UserOf(1), <<>>, <<>>) : h \in {"nodes", "stats"}}
    \cup {Update("text_message", c, UserOf(c), <<"H">>, <<>>) : c \in Chats}
    \cup {Update("location_message", 1, UserOf(1), <<>>,
                 [latitude |-> 55, longitude |-> 37])}

\* the broker message that adds a from_mesh record
FaultChatMeshInputs ==
    {Message(T_text, Data(<<>>, <<"!ab12">>, [text |-> <<"hello">>]))}

NextChatFaults ==
    \/ /\ steps < MaxChatFaultSteps
       /\ \E u \in FaultUpdates : OnUpdate(u)
    \/ /\ steps < MaxChatFaultSteps
       /\ \E m \in FaultChatMeshInputs : OnMessage(m.topic, m.data)
    \/ DbChanges

SpecChatFaults == InitWith(FaultConfigs) /\ [][NextChatFaults]_vars

\* the whole bridge over a log table and a user query that fail and recover:
\* broker messages that enqueue, users that register, and the delivery job
MaxRelayFaultSteps == 2

RelayFaultMeshInputs ==
    {Message(T_text, Data(<<>>, <<"!ab12">>, [text |-> <<"hello">>])),
     Message(T_telemetry, Data(<<>>, <<"!ab12">>, [batteryLevel |-> 19]))}

RelayFaultCalls == {"log_message", "query"}

NextRelayFaults ==
    \/ /\ steps < MaxRelayFaultSteps
       /\ \E m \in RelayFaultMeshInputs : OnMessage(m.topic, m.data)
    \/ /\ steps < MaxRelayFaultSteps
       /\ \E u \in RelayUpdates : OnUpdate(u)
    \/ JobStart
    \/ JobGet
    \/ JobSend
    \/ /\ DbChanges
       /\ db_fail' \subseteq RelayFaultCalls

SpecRelayFaults == Init /\ [][NextRelayFaults]_vars

\* both pipelines with further handlers registered on either side before the
\* traffic starts, any of which may raise when called
MaxFanOutSteps == 1

ObserverNames == {"observer_a", "observer_b"}

FanOutConfigs ==
    {DefaultConfig,
     [DefaultConfig EXCEPT !.allowed_chats = {1}],
     [DefaultConfig EXCEPT !.enable_position_sharing = FALSE]}

FanOutMeshInputs ==
    {Message(T_text, Data(<<>>, <<"!ab12">>, [text |-> <<"hello">>])),
     Message(T_json, Data(<<>>, <<"!ab12">>, [text |-> <<"hello">>]))}

FanOutUpdates ==
    {Update("text_message", c, UserOf(c), <<"H">>, <<>>) : c \in Chats}
    \cup {Update("location_message", 1, UserOf(1), <<>>,
                 [latitude |-> 55, longitude |-> 37]),
          Update("help", 1, UserOf(1), <<>>, <<>>)}

NextFanOut ==
    \/ /\ steps < MaxFanOutSteps
       /\ \E m \in FanOutMeshInputs : OnMessage(m.topic, m.data)
    \/ /\ steps < MaxFanOutSteps
       /\ \E topic \in MalformedTopics : OnMalformed(topic)
    \/ /\ steps < MaxFanOutSteps
       /\ \E u \in FanOutUpdates : OnUpdate(u)
    \/ /\ steps = 0
       /\ \E side \in DOMAIN message_handlers, handler \in ObserverNames :
             AddMessageHandler(side, handler)

SpecFanOut == InitWith(FanOutConfigs) /\ [][NextFanOut]_vars

\* the relay with its scheduling: the job queue starts _process_message_queue
\* every second (run_repeating, interval=1.0) for as long as the bot polls, and
\* every await of a run returns, so no step of the job stays enabled for ever
\* without being taken; the broker, the users, the user query and the
\* beginning of shutdown come when they come
MaxLiveSteps == 2

LiveMeshInputs ==
    {Message(T_text, Data(<<>>, <<"!ab12">>, [text |-> <<"hello">>])),
     Message(T_telemetry, Data(<<>>, <<"!ab12">>, [batteryLevel |-> 19]))}

LiveUpdates == {Update("start", 1, UserOf(1), <<>>, <<>>)}

NextLive ==
    \/ /\ steps < MaxLiveSteps
       /\ \E m \in LiveMeshInputs : OnMessage(m.topic, m.data)
    \/ /\ steps < MaxLiveSteps
       /\ \E u \in LiveUpdates : OnUpdate(u)
    \/ JobStart
    \/ JobGet
    \/ JobSend
    \/ /\ DbChanges
       /\ db_fail' \subseteq {"query"}
    \/ Shutdown

SpecLive ==
    /\ Init
    /\ [][NextLive]_vars
    /\ WF_vars(JobStart)
    /\ WF_vars(JobGet)
    /\ WF_vars(JobSend)

\* the chat pipeline over a broker connection that comes and goes
MaxBrokerSteps == 2

BrokerUpdates ==
    {Update("text_message", c, UserOf(c), <<"H">>, <<>>) : c \in Chats}
    \cup {Update("location_message", 1, UserOf(1), <<>>,
                 [latitude |-> 55, longitude |-> 37])}
    \cup {Update("start", c, UserOf(c), <<>>, <<>>) : c \in Chats}

NextBroker ==
    \/ /\ steps < MaxBrokerSteps
       /\ \E u \in BrokerUpdates : OnUpdate(u)
    \/ BrokerChanges

SpecBroker == InitWith(FaultConfigs) /\ [][NextBroker]_vars

\* the Database methods the two threads call, step by step
MaxSessionSteps == 3

\* the broker thread: the from_mesh record of a text and a node update
MeshCalls ==
    {Call("log_message", <<"from_mesh", 0, <<"hello">>, <<"!ab12">>>>),
     Call("update_node", <<"!ab12",
                           [position |-> [latitude |-> 55, longitude |-> 37]],
                           clock>>)}

\* the chat event loop: a registration, and the records of a text and of a
\* command
ChatCalls ==
    {Call("add_user", <<1, <<"al1">>, <<"Al">>, <<>>, TRUE>>),
     Call("log_message", <<"to_mesh", 1, <<"H">>, <<>>>>),
     Call("log_message", <<"command", 1, <<"/start">>, <<>>>>)}

NextSession ==
    \/ /\ steps < MaxSessionSteps
       /\ \E c \in MeshCalls : SessionStage("mesh", c)
    \/ /\ steps < MaxSessionSteps
       /\ \E c \in ChatCalls : SessionStage("chat", c)
    \/ SessionCommit("mesh")
    \/ SessionCommit("chat")
    \/ DbChanges

SpecSession == InitMesh /\ [][NextSession]_vars

\* the whole bridge with its shutdown: broker messages, registrations, the
\* delivery job, and the shutdown sequence at any moment
MaxShutdownSteps == 2

ShutdownMeshInputs ==
    {Message(T_text, Data(<<>>, <<"!ab12">>, [text |-> <<"hello">>])),
     Message(T_telemetry, Data(<<>>, <<"!ab12">>, [batteryLevel |-> 19]))}

NextShutdown ==
    \/ /\ steps < MaxShutdownSteps
       /\ \E m \in ShutdownMeshInputs : OnMessage(m.topic, m.data)
    \/ /\ steps < MaxShutdownSteps
       /\ \E u \in RelayUpdates : OnUpdate(u)
    \/ JobStart
    \/ JobGet
    \/ JobSend
    \/ Shutdown
    \/ Disconnect
    \/ CloseSession

SpecShutdown == Init /\ [][NextShutdown]_vars

(***************************************************************************)
(* The claims.                                                             *)
(***************************************************************************)
\* the last step handled a broker message
MqttStep == op' = "mqtt" /\ steps' = steps + 1

InTopic(word) == IsSubstring(word, mqtt_in.topic)
TypeIs(t) == Opt(mqtt_in.data, "type") = <<t>>

InPayload == Get(mqtt_in.data, "payload", <<>>)
InFrom == Get(mqtt_in.data, "from", "unknown")

\* the step put exactly this one action on the relay queue
PutsExactly(item) ==
    /\ message_queue' = Append(message_queue, item)
    /\ enqueued' = Append(enqueued, item)

\* the step put exactly one action of this kind on the relay queue
PutsOne(action) ==
    /\ Len(message_queue') = Len(message_queue) + 1
    /\ SubSeq(message_queue', 1, Len(message_queue)) = message_queue
    /\ message_queue'[Len(message_queue')][1] = action

\* C2 as stated: a Telemetry event enqueues one NotifyAdmins iff its battery
\* level is present and below 20 (0 included); otherwise it enqueues nothing.
C2_LowBatteryIff ==
    [][(MqttStep /\ mqtt_in'.message_type = "telemetry") =>
        LET b == Opt(InPayload', "batteryLevel")
        IN  IF b # <<>> /\ b[1] < 20
            THEN PutsOne("notify_admins")
            ELSE UNCHANGED message_queue]_vars

\* C3: a Position event without latitude or without longitude changes neither
\* the node registry (in memory or persisted) nor the relay queue nor the log.
C3_PositionGating ==
    [][(/\ MqttStep
        /\ mqtt_in'.message_type = "position"
        /\ \/ Opt(InPayload', "latitude") = <<>>
           \/ Opt(InPayload', "longitude") = <<>>)
       => UNCHANGED <<db_nodes, mesh_nodes, message_queue, enqueued,
                      db_messages>>]_vars

\* C3 witness: a Position event with a latitude and no longitude was handled
\* for a node the registry already holds, at a later time than its last update
C3_Witness ==
    /\ op = "mqtt"
    /\ mqtt_in.message_type = "position"
    /\ Opt(InPayload, "latitude") = <<55>>
    /\ Opt(InPayload, "longitude") = <<>>
    /\ InFrom \in DOMAIN db_nodes
    /\ db_nodes[InFrom].last_seen = <<0>>
    /\ clock = 1

\* C4 as stated: a Position event with both coordinates present, whatever
\* their values (0 included), stores them for the sender and enqueues exactly
\* one NotifyAdmins, with altitude 0 when there is none.
C4_PositionApplied ==
    [][(/\ MqttStep
        /\ mqtt_in'.message_type = "position"
        /\ Opt(InPayload', "latitude") # <<>>
        /\ Opt(InPayload', "longitude") # <<>>)
       => /\ InFrom' \in DOMAIN db_nodes'
          /\ db_nodes'[InFrom'].latitude = Opt(InPayload', "latitude")
          /\ db_nodes'[InFrom'].longitude = Opt(InPayload', "longitude")
          /\ PutsExactly(<<"notify_admins",
                 PositionMessage(InFrom', InPayload'["latitude"],
                                 InPayload'["longitude"],
                                 Get(InPayload', "altitude", 0))>>)]_vars

\* the long name the in-memory registry holds for a node, if any
KnownLongName(node_id) ==
    IF node_id \in DOMAIN mesh_nodes
    THEN Opt(mesh_nodes[node_id]["user"], "longName")
    ELSE <<>>

\* C5: a Text event with a non-empty body enqueues exactly one Broadcast
\* "MESH <display-name>: <text>", the display name being the long name the
\* registry learnt from NodeInfo, else "Node <id>", and appends one from_mesh
\* log record; with an empty or absent body it enqueues and logs nothing.
C5_TextBroadcast ==
    [][(MqttStep /\ mqtt_in'.message_type = "text") =>
        LET text == Get(InPayload', "text", <<>>)
            name == IF KnownLongName(InFrom') # <<>>
                    THEN KnownLongName(InFrom')[1]
                    ELSE <<"Node ", InFrom'>>
        IN  IF text # <<>>
            THEN /\ PutsExactly(<<"broadcast",
                        <<"MESH ">> \o name \o <<": ">> \o text>>)
                 /\ Len(db_messages') = Len(db_messages) + 1
                 /\ SubSeq(db_messages', 1, Len(db_messages)) = db_messages
                 /\ db_messages'[Len(db_messages')].direction = "from_mesh"
                 /\ db_messages'[Len(db_messages')].content = text
                 /\ db_messages'[Len(db_messages')].mesh_node = <<InFrom'>>
            ELSE UNCHANGED <<message_queue, enqueued, db_messages>>]_vars

\* C5 witness: a text of a node whose NodeInfo gave the long name "Alice" was
\* broadcast under that name and logged
C5_Witness ==
    /\ op = "mqtt"
    /\ mqtt_in.message_type = "text"
    /\ KnownLongName(InFrom) = << <<"Alice">> >>
    /\ message_queue = << <<"broadcast", <<"MESH ", "Alice", ": ", "hello">> >> >>
    /\ Len(db_messages) = 1
    /\ db_messages[1].direction = "from_mesh"

\* the last step handled a chat update
ChatStep == op' = "chat" /\ steps' = steps + 1

\* the handler replied with the denial and nothing else
OnlyDenied(out) == Len(out.replies) = 1 /\ out.replies[1].text = "access denied"

\* the handler sent no denial
NotDenied(out) ==
    \A i \in 1..Len(out.replies) : out.replies[i].text # "access denied"

\* the chat is outside a non-empty allow-list
Outsider(chat_id) ==
    config.allowed_chats # {} /\ chat_id \notin config.allowed_chats

\* C6: for text and location messages an empty allow-list admits every
\* chat-id, and a chat-id outside a non-empty allow-list gets the denial only:
\* no mesh publish, no log record, no change of any ChatUser.
C6_MessageAccess ==
    [][(ChatStep /\ chat_in'.handler \in {"text_message", "location_message"})
       => /\ config.allowed_chats = {} => NotDenied(chat_out')
          /\ Outsider(chat_in'.chat_id) =>
                /\ OnlyDenied(chat_out')
                /\ chat_out'.published = <<>>
                /\ UNCHANGED <<db_messages, db_users>>]_vars

\* C6 witness: with users registered and records logged, a text message of a
\* chat outside the allow-list was denied
C6_Witness ==
    /\ op = "chat"
    /\ chat_in.handler = "text_message"
    /\ Outsider(chat_in.chat_id)
    /\ OnlyDenied(chat_out)
    /\ db_users # <<>>
    /\ db_messages # <<>>

\* C7 as stated: every command of a chat outside a non-empty allow-list gets
\* the denial only, and no log record is appended.
C7_CommandAccess ==
    [][(/\ ChatStep
        /\ chat_in'.handler \in Commands
        /\ Outsider(chat_in'.chat_id))
       => /\ OnlyDenied(chat_out')
          /\ UNCHANGED db_messages]_vars

\* the formatted text of the text message just handled
Formatted == Format(config.message_format, SenderName(chat_in.user),
                    chat_in.text)

\* the replies hold the truncation notice
Noticed(out) ==
    \E i \in 1..Len(out.replies) : out.replies[i].text = "message truncated"

\* C8 as stated: for every positive maximum and every formatted text longer
\* than it, the text handed to the mesh has exactly max characters, ends in
\* the ellipsis, and the sender is told; a text within the maximum is handed
\* over unchanged and without notice.
C8_Truncation ==
    [][(/\ ChatStep
        /\ chat_in'.handler = "text_message"
        /\ ~Outsider(chat_in'.chat_id))
       => LET max == config.max_message_length
              out == chat_out'.published[1].text
          IN  /\ Len(chat_out'.published) = 1
              /\ IF Len(Formatted') > max
                 THEN /\ Len(out) = max
                      /\ out[Len(out)] = "."
                      /\ Noticed(chat_out')
                 ELSE /\ out = Formatted'
                      /\ ~Noticed(chat_out')]_vars

\* C9: the relay queue is FIFO end to end.  At every moment the actions put
\* are the actions dequeued so far, in the same order, followed by the queue;
\* a run of the delivery job ends only on an empty queue and in the very step
\* that finds it empty, having executed as many actions as it found plus those
\* put while it ran (N after N puts, none on an empty queue).
C9_Fifo ==
    /\ [](enqueued = executed \o message_queue)
    /\ [][op' = "job_end" =>
            /\ job.pc = "drain"
            /\ message_queue = <<>>
            /\ UNCHANGED <<message_queue, executed, sent>>
            /\ executed' = enqueued'
            /\ job'.n = job'.backlog + (Len(enqueued') - job'.puts)]_vars

\* C9 witness: a run that began with three actions queued has ended, with the
\* three executed in the order they were put and the queue empty
C9_Witness ==
    /\ op = "job_end"
    /\ job.backlog = 3
    /\ job.n = 3
    /\ Len(enqueued) = 3
    /\ executed = enqueued
    /\ enqueued[1] # enqueued[2]
    /\ message_queue = <<>>

\* the send attempts made so far for the action being executed
AttemptsOfAction == SubSeq(sent, Len(sent) - job.done + 1, Len(sent))

\* C10: for the action the job is executing, the sends attempted so far went,
\* once each and in order, to its first recipients with its text, whatever
\* their outcome; the job turns to the next action only after every recipient
\* was tried, and a send never ends the run.  The recipients are every
\* ChatUser known when a Broadcast is dequeued, every configured admin for a
\* NotifyAdmins.
C10_Fanout ==
    /\ [](job.action # <<>> =>
            /\ job.done <= Len(job.recipients)
            /\ job.done <= Len(sent)
            /\ \A i \in 1..job.done :
                   /\ AttemptsOfAction[i].chat_id = job.recipients[i]
                   /\ AttemptsOfAction[i].text = job.action[2]
            /\ job.pc # "send" => job.done = Len(job.recipients))
    /\ [][op' = "job_get" =>
            /\ job'.action = Head(message_queue)
            /\ IF job'.action[1] = "broadcast"
               THEN /\ {job'.recipients[i] : i \in 1..Len(job'.recipients)}
                          = DOMAIN db_users
                    /\ Len(job'.recipients) = Cardinality(DOMAIN db_users)
               ELSE job'.recipients = config.admin_ids]_vars
    /\ [][op' = "job_send" =>
            /\ Len(sent') = Len(sent) + 1
            /\ job'.pc \in {"send", "drain"}]_vars

\* C10 witness: in one run the first send of an action failed, its second
\* recipient was tried all the same, and a later action was executed too
C10_Witness ==
    /\ job.n = 2
    /\ Len(sent) = 3
    /\ ~sent[1].ok
    /\ sent[2].chat_id # sent[1].chat_id
    /\ sent[2].text = sent[1].text
    /\ sent[3].text # sent[1].text
    /\ sent[3].text = job.action[2]

\* C11: no broker message ends the mesh inbound pipeline.  Whatever was
\* handled before (a payload that is not JSON, a message without fields, a
\* message whose persistence call raised in the text, position, nodeinfo or
\* telemetry branch), no exception has left the broker callback, so the
\* network loop is running and accepts every next message; and a message
\* handled while persistence works is handled as ever: no error is logged for
\* it, a text is put on the relay queue and logged, a node update is stored.
C11_PipelineSurvives ==
    /\ [](/\ mqtt_thread = "running"
          /\ \A m \in FaultMeshInputs : ENABLED OnMessage(m.topic, m.data)
          /\ \A topic \in MalformedTopics : ENABLED OnMalformed(topic))
    /\ [][(MqttStep /\ db_fail = {} /\ mqtt_in'.message_type # "undecoded")
           => /\ mqtt_in'.error = "none"
              /\ (mqtt_in'.message_type = "text"
                  /\ Get(InPayload', "text", <<>>) # <<>>)
                 => /\ PutsOne("broadcast")
                    /\ Len(db_messages') = Len(db_messages) + 1
              /\ (mqtt_in'.message_type \in {"nodeinfo", "telemetry"})
                 => /\ InFrom' \in DOMAIN db_nodes'
                    /\ db_nodes'[InFrom'].last_seen = <<clock>>]_vars

\* C11 witness: a nodeinfo message whose update_node raised (the node is in
\* the in-memory registry and not in the table) was followed by a text
\* message that was relayed and logged
C11_Witness ==
    /\ op = "mqtt"
    /\ steps = 2
    /\ "!ab12" \in DOMAIN mesh_nodes
    /\ "!ab12" \notin DOMAIN db_nodes
    /\ mqtt_in.message_type = "text"
    /\ mqtt_in.error = "none"
    /\ Len(message_queue) = 1
    /\ Len(db_messages) = 1
    /\ mqtt_thread = "running"

\* the persistence call a command handler starts with
FirstCall(handler) == IF handler = "start" THEN "add_user" ELSE "query"

\* the fixed replies that report a failure
ErrorReplies == {"nodes error", "stats error", "rights check error"}

\* C12 as stated: when the persistence call of /start, /nodes, /stats or
\* /admin raises, the handler sends one fixed error reply and returns; the
\* error does not leave the handler.
C12_CommandsTolerate ==
    [][(/\ ChatStep
        /\ chat_in'.handler \in {"start", "nodes", "stats", "admin"}
        /\ CheckAccess(chat_in'.chat_id)
        /\ FirstCall(chat_in'.handler) \in db_fail)
       => /\ ~chat_out'.raised
          /\ Len(chat_out'.replies) = 1
          /\ chat_out'.replies[1].text \in ErrorReplies]_vars

\* the changes staged by a thread that are pending in the session
PendingOf(t, sess) == SelectSeq(sess.pending, LAMBDA c : c.by = t)

\* the other thread
Other(t) == IF t = "mesh" THEN "chat" ELSE "mesh"

\* C13 as stated: the persistence operations of the broker thread and of the
\* chat side exclude each other: a commit or rollback made by one side leaves
\* the changes the other side has staged and not yet committed pending.
C13_MutualExclusion ==
    [][\A t \in {"mesh", "chat"} :
          (session[t] # "idle" /\ session'[t] = "idle")
          => PendingOf(Other(t), session') = PendingOf(Other(t), session)]_vars

\* C14: mesh ingestion never waits on chat delivery.  In every reachable
\* state, whatever the length of the relay queue and wherever the delivery
\* job is (idle, draining, or waiting in a chat send), every next broker
\* message can be handled to the end; and handling a broker message performs
\* no chat send and moves the delivery job nowhere.
C14_IngestionNeverWaits ==
    /\ [](\A m \in RelayMeshInputs : ENABLED OnMessage(m.topic, m.data))
    /\ [][MqttStep => UNCHANGED <<sent, job, executed, chat_out>>]_vars

\* C14 witness: a broker message was handled and enqueued while the delivery
\* job was waiting in a chat send with the queue not empty
C14_Witness ==
    /\ op = "mqtt"
    /\ job.pc = "send"
    /\ Len(message_queue) >= 1
    /\ Len(enqueued) > job.puts

\* the relay actions a step put on the queue
NewlyEnqueued == SubSeq(enqueued', Len(enqueued) + 1, Len(enqueued'))

\* every one of these actions is of this kind
AllOfKind(items, action) == \A i \in 1..Len(items) : items[i][1] = action

\* C15: position data never reaches ordinary users.  Only the handling of a
\* broker message puts actions on the relay queue; a Text event puts only
\* Broadcast actions, a Position or Telemetry event only NotifyAdmins actions,
\* a NodeInfo or Unknown event nothing; so in every state every Broadcast in
\* the queue is the notice of a mesh text and every NotifyAdmins a position
\* notice or a battery warning.
C15_BroadcastOnlyFromText ==
    /\ [][/\ enqueued = SubSeq(enqueued', 1, Len(enqueued))
          /\ enqueued' # enqueued => MqttStep
          /\ MqttStep =>
               LET kind == mqtt_in'.message_type
               IN  /\ kind = "text" => AllOfKind(NewlyEnqueued, "broadcast")
                   /\ kind \in {"position", "telemetry"}
                      => AllOfKind(NewlyEnqueued, "notify_admins")
                   /\ kind \in {"nodeinfo", "unknown"}
                      => UNCHANGED <<message_queue, enqueued>>]_vars
    /\ [](\A i \in 1..Len(message_queue) :
            LET item == message_queue[i]
            IN  IF item[1] = "broadcast"
                THEN item[2][1] = "MESH "
                ELSE /\ item[1] = "notify_admins"
                     /\ item[2][1] \in {"POS from ", "LOW BATTERY at "})

\* C15 witness: a text and then a position with a fix were handled; the
\* queue holds the text as a Broadcast and the position as a NotifyAdmins
C15_Witness ==
    /\ op = "mqtt"
    /\ mqtt_in.message_type = "position"
    /\ Len(message_queue) = 2
    /\ message_queue[1][1] = "broadcast"
    /\ message_queue[2][1] = "notify_admins"
    /\ message_queue[2][2][1] = "POS from "

\* C16: across any sequence of NodeInfo, Position and Telemetry updates, with
\* a clock that does not go back, no step removes a node from the persisted
\* registry, and no step makes a node's stored last-seen value smaller or
\* clears it; every stored node has a last-seen value.
C16_LastSeenMonotone ==
    /\ [][/\ clock' >= clock
          /\ \A n \in DOMAIN db_nodes :
                /\ n \in DOMAIN db_nodes'
                /\ db_nodes'[n].last_seen # <<>>
                /\ db_nodes'[n].last_seen[1] >= db_nodes[n].last_seen[1]]_vars
    /\ [](\A n \in DOMAIN db_nodes :
            /\ db_nodes[n].last_seen # <<>>
            /\ db_nodes[n].last_seen[1] <= clock)

\* C16 witness: a node was updated by a Position and by a Telemetry event,
\* the later of them after the clock advanced, and carries the later time
C16_Witness ==
    /\ op = "mqtt"
    /\ clock = 1
    /\ \E n \in DOMAIN db_nodes :
          /\ db_nodes[n].latitude = <<55>>
          /\ db_nodes[n].battery_level # <<>>
          /\ db_nodes[n].last_seen = <<1>>

\* the identity fields of a persisted node
Identity(row) == <<row.long_name, row.short_name, row.hardware_model>>

\* the identity a NodeInfo payload carries, under its "user" key (the key
\* _handle_nodeinfo_message and _handle_text_message read the names from)
CarriedIdentity(payload) ==
    LET user == Get(payload, "user", <<>>)
    IN  <<Opt(user, "longName"), Opt(user, "shortName"), Opt(user, "hwModel")>>

\* C17 as stated: after every NodeInfo event the sender's identity fields
\* (long name, short name, hardware model), in the in-memory registry and in
\* the persisted one, are those the event carries; handling the same event
\* again changes neither; and the sender has one entry, under its node-id.
C17_NodeInfoConverges ==
    [][(MqttStep /\ mqtt_in'.message_type = "nodeinfo") =>
        LET n == InFrom'
        IN  /\ n \in DOMAIN mesh_nodes'
            /\ mesh_nodes'[n] = [user |-> Get(InPayload', "user", <<>>)]
            /\ n \in DOMAIN db_nodes'
            /\ db_nodes'[n].node_id = n
            /\ \A m \in DOMAIN db_nodes' :
                  db_nodes'[m].id = db_nodes'[n].id => m = n
            /\ Identity(db_nodes'[n]) = CarriedIdentity(InPayload')
            /\ (op = "mqtt" /\ mqtt_in = mqtt_in')
               => /\ mesh_nodes' = mesh_nodes
                  /\ Identity(db_nodes'[n]) = Identity(db_nodes[n])]_vars

\* the number of to_mesh records of a chat among these log records
ToMeshCount(rows, chat_id) ==
    Cardinality({i \in 1..Len(rows) :
                    rows[i].direction = "to_mesh" /\ rows[i].chat_id = chat_id})

\* the log records a step committed
NewRecords == SubSeq(db_messages', Len(db_messages) + 1, Len(db_messages'))

\* C18: a ChatUser's message_count changes only in a step that commits a
\* to_mesh record for its chat-id, and then by exactly 1; command and
\* from_mesh records, denied attempts and log writes that failed leave it as
\* it was; a new ChatUser starts at 0; so the count is the number of to_mesh
\* records committed for the chat-id since the user was created.  No ChatUser
\* is removed and no two share a chat-id, whatever /start commands arrive.
C18_MessageCount ==
    /\ [][/\ db_messages = SubSeq(db_messages', 1, Len(db_messages))
          /\ Len(NewRecords) <= 1
          /\ \A c \in DOMAIN db_users :
                /\ c \in DOMAIN db_users'
                /\ db_users'[c].message_count =
                      db_users[c].message_count + ToMeshCount(NewRecords, c)
          /\ \A c \in DOMAIN db_users' \ DOMAIN db_users :
                /\ db_users'[c].message_count = 0
                /\ ToMeshCount(NewRecords, c) = 0]_vars
    /\ [](\A c \in DOMAIN db_users :
            /\ db_users[c].chat_id = c
            /\ db_users[c].message_count <= ToMeshCount(db_messages, c)
            /\ \A d \in DOMAIN db_users :
                  db_users[d].id = db_users[c].id => d = c)

\* C18 witness: a registered user's text was published while the log write
\* failed; the count is still 1, the one to_mesh record committed before
C18_Witness ==
    /\ op = "chat"
    /\ chat_in.handler = "text_message"
    /\ chat_in.chat_id = 1
    /\ chat_out.published # <<>>
    /\ "log_message" \in db_fail
    /\ 1 \in DOMAIN db_users
    /\ db_users[1].message_count = 1
    /\ ToMeshCount(db_messages, 1) = 1

\* C19: /admin replies with the admin panel exactly when a ChatUser exists for
\* the chat-id with the admin flag set, and otherwise (no ChatUser, or flag
\* unset) with the permission-denied reply only; it changes nothing.  The
\* flag is set when /start creates the ChatUser, to the chat-id's membership
\* of the configured admin set, and no later step changes it.
C19_AdminPanel ==
    /\ [][(ChatStep /\ chat_in'.handler = "admin") =>
            LET c == chat_in'.chat_id
            IN  /\ chat_out'.replies =
                      IF c \in DOMAIN db_users /\ db_users[c].is_admin
                      THEN <<Reply("admin panel")>>
                      ELSE <<Reply("not enough rights")>>
                /\ chat_out'.published = <<>>
                /\ UNCHANGED <<db_users, db_messages>>]_vars
    /\ [][/\ \A c \in DOMAIN db_users :
                /\ c \in DOMAIN db_users'
                /\ db_users'[c].is_admin = db_users[c].is_admin
          /\ \A c \in DOMAIN db_users' \ DOMAIN db_users :
                /\ ChatStep
                /\ chat_in'.handler = "start"
                /\ chat_in'.chat_id = c
                /\ db_users'[c].is_admin = IsConfiguredAdmin(c)]_vars
    /\ [](\A c \in DOMAIN db_users : db_users[c].is_admin = IsConfiguredAdmin(c))

\* C19 witness: a chat of the admin set sent /start and then /admin, and got
\* the panel
C19_Witness ==
    /\ op = "chat"
    /\ chat_in.handler = "admin"
    /\ chat_in.chat_id \in DOMAIN db_users
    /\ IsConfiguredAdmin(chat_in.chat_id)
    /\ chat_out.replies = <<Reply("admin panel")>>

\* once shutdown has begun no relay action is dequeued or sent, no job step
\* runs and no chat update is handled: what the queue holds stays there
NoDeliveryInShutdown ==
    [][phase # "running"
       => /\ UNCHANGED <<sent, executed, job, chat_in, chat_out>>
          /\ message_queue = SubSeq(message_queue', 1, Len(message_queue))]_vars

\* the sequence is: shutdown begins, the broker disconnect is attempted, then
\* the session is closed; the network loop is stopped by the disconnect only;
\* after a disconnect, failed or not, the close is the next and enabled step
ShutdownOrder ==
    /\ [][phase' # phase
          => <<phase, phase'>> \in {<<"running", "shutdown">>,
                                    <<"shutdown", "closing">>,
                                    <<"closing", "closed">>}]_vars
    /\ [][mqtt_thread' # mqtt_thread
          => phase = "shutdown" /\ phase' = "closing"
             /\ mqtt_thread' = "stopped"]_vars
    /\ [](phase = "shutdown" => ENABLED Disconnect)
    /\ [](phase = "closing" => ENABLED CloseSession)

\* C20 as stated: after shutdown begins no relay action is delivered and no
\* broker message is handled, whatever the queue holds; the sequence
\* disconnects from the broker and then closes persistence, also when the
\* disconnect fails.
C20_ShutdownQuiesces ==
    /\ NoDeliveryInShutdown
    /\ ShutdownOrder
    /\ [][phase # "running" => ~MqttStep]_vars

\* C20 amended: after shutdown begins no relay action is delivered, whatever
\* the queue holds; broker messages are still handled (put on the queue and
\* persisted, never delivered) until the disconnect has stopped the network
\* loop or the sequence is over, and none is handled after that; the
\* sequence disconnects from the broker and then closes persistence, also
\* when the disconnect fails.
C20_ShutdownSequence ==
    /\ NoDeliveryInShutdown
    /\ ShutdownOrder
    /\ [][(mqtt_thread = "stopped" \/ phase = "closed") => ~MqttStep]_vars

\* C20 witness: shutdown began with the queue empty, the disconnect failed
\* and left the network loop running, and a broker message was then handled:
\* its action sits in the queue, undelivered, and the close is due next
C20_Witness ==
    /\ phase = "closing"
    /\ op = "mqtt"
    /\ mqtt_thread = "running"
    /\ Len(message_queue) = 1
    /\ Len(enqueued) = 1
    /\ executed = <<>>
    /\ sent = <<>>

\* C21: a location message from an admitted chat-id, with position sharing
\* disabled, gets the fixed refusal only: nothing is published and nothing is
\* logged; with position sharing enabled exactly one send_position carrying
\* the message's latitude and longitude is published and one to_mesh log
\* record of kind position is appended.
C21_PositionSharing ==
    [][(/\ ChatStep
        /\ chat_in'.handler = "location_message"
        /\ CheckAccess(chat_in'.chat_id))
       => IF ~config.enable_position_sharing
          THEN /\ chat_out'.replies = <<Reply("position sharing off")>>
               /\ chat_out'.published = <<>>
               /\ UNCHANGED <<db_messages, db_users>>
          ELSE /\ Len(chat_out'.published) = 1
               /\ chat_out'.published[1].type = "position"
               /\ chat_out'.published[1].latitude =
                      <<chat_in'.location.latitude>>
               /\ chat_out'.published[1].longitude =
                      <<chat_in'.location.longitude>>
               /\ Len(db_messages') = Len(db_messages) + 1
               /\ SubSeq(db_messages', 1, Len(db_messages)) = db_messages
               /\ LET row == db_messages'[Len(db_messages')]
                  IN  /\ row.direction = "to_mesh"
                      /\ row.message_type = "position"
                      /\ row.chat_id = chat_in'.chat_id]_vars

\* C21 witness: with position sharing disabled and a restricted allow-list,
\* the admitted chat sent a location and got the refusal
C21_Witness ==
    /\ op = "chat"
    /\ chat_in.handler = "location_message"
    /\ ~config.enable_position_sharing
    /\ config.allowed_chats = {1}
    /\ chat_in.chat_id = 1
    /\ chat_out.replies = <<Reply("position sharing off")>>
    /\ chat_out.published = <<>>

\* C22: in Text handling the Broadcast is enqueued before the from_mesh log
\* write is attempted: when the write fails, the Broadcast is in the queue
\* all the same, no record is added, and the failure is logged without
\* reaching the broker thread, which keeps running; an enqueued action stays
\* in the queue until the job takes it.
C22_EnqueueBeforeLog ==
    /\ [][(/\ MqttStep
            /\ mqtt_in'.message_type = "text"
            /\ Get(InPayload', "text", <<>>) # <<>>
            /\ LogMessageFails)
           => /\ PutsOne("broadcast")
              /\ enqueued' = Append(enqueued,
                                    message_queue'[Len(message_queue')])
              /\ UNCHANGED db_messages
              /\ mqtt_in'.error = "persistence"
              /\ mqtt_thread' = "running"]_vars
    /\ [](enqueued = executed \o message_queue)

\* C22 witness: a Text's Broadcast was delivered to a registered chat by a
\* later tick although its from_mesh record could not be written
C22_Witness ==
    /\ op = "job_send"
    /\ db_messages = <<>> \/ \A i \in DOMAIN db_messages :
                                db_messages[i].direction # "from_mesh"
    /\ Len(executed) = 1
    /\ executed[1][1] = "broadcast"
    /\ sent # <<>>
    /\ sent[Len(sent)].ok

\* the handlers called by the last step, in the order of the calls
Called(invoked) == [i \in DOMAIN invoked |-> invoked[i].handler]

\* C23: every decoded broker event, and every chat text or location message
\* that is relayed (admitted, and for a location with position sharing on),
\* calls each registered handler once, in registration order, whichever of
\* them raise; a payload that cannot be decoded and a message that is refused
\* call none.
C23_FanOutIsolated ==
    /\ [][MqttStep =>
            Called(mqtt_in'.invoked) =
                IF mqtt_in'.message_type = "undecoded" THEN <<>>
                ELSE message_handlers.mqtt_client]_vars
    /\ [][(ChatStep /\ chat_in'.handler \in {"text_message",
                                              "location_message"})
           => Called(chat_out'.invoked) =
                IF /\ CheckAccess(chat_in'.chat_id)
                   /\ \/ chat_in'.handler = "text_message"
                      \/ config.enable_position_sharing
                THEN message_handlers.telegram_bot
                ELSE <<>>]_vars

\* C23 witness: of three handlers of the bot the second raised on a text
\* message and the third was called after it
C23_Witness ==
    /\ op = "chat"
    /\ chat_in.handler = "text_message"
    /\ Len(message_handlers.telegram_bot) = 3
    /\ Len(chat_out.invoked) = 3
    /\ chat_out.invoked[2].raised
    /\ ~chat_out.invoked[3].raised
    /\ chat_out.published # <<>>

\* "first name, else username, else Unknown"
DisplayName(user) ==
    IF Get(user, "first_name", <<>>) # <<>> THEN user["first_name"]
    ELSE IF Get(user, "username", <<>>) # <<>> THEN user["username"]
    ELSE <<"U","n","k","n","o","w","n">>

\* the template "# {user}: {message}" filled in
Filled(name, message) == <<"#", " ">> \o name \o <<":", " ">> \o message

\* p is s cut short and closed by the ellipsis
Cut(p, s) ==
    /\ Len(p) >= 3
    /\ SubSeq(p, Len(p) - 2, Len(p)) = <<".", ".", ".">>
    /\ Len(p) - 3 <= Len(s)
    /\ SubSeq(p, 1, Len(p) - 3) = SubSeq(s, 1, Len(p) - 3)

\* C24: a text message from an admitted chat-id makes one send_text publish
\* to "^all" on channel 0, then the confirmation reply, then one to_mesh log
\* record, in this order (only a truncation notice comes before them); the
\* text published is the template filled with the first name, else the
\* username, else "Unknown", whole when it fits the maximum and cut otherwise.
C24_TextRelayOrder ==
    [][(/\ ChatStep
        /\ chat_in'.handler = "text_message"
        /\ CheckAccess(chat_in'.chat_id))
       => LET out    == chat_out'
              full   == Filled(DisplayName(chat_in'.user), chat_in'.text)
              fits   == Len(full) <= config.max_message_length
              n      == Len(out.effects)
          IN  /\ Len(out.published) = 1
              /\ out.published[1].type = "sendtext"
              /\ out.published[1].destination = "^all"
              /\ out.published[1].channel = 0
              /\ IF fits THEN out.published[1].text = full
                         ELSE Cut(out.published[1].text, full)
              /\ n >= 3
              /\ SubSeq(out.effects, n - 2, n) = <<"publish", "reply", "log">>
              /\ \A i \in 1..(n - 3) : out.effects[i] = "reply"
              /\ out.replies[Len(out.replies)] = Reply("sent to mesh")
              /\ Len(db_messages') = Len(db_messages) + 1
              /\ SubSeq(db_messages', 1, Len(db_messages)) = db_messages
              /\ db_messages'[Len(db_messages')].direction = "to_mesh"
              /\ db_messages'[Len(db_messages')].content = chat_in'.text]_vars

\* C24 witness: the text "Hi" of the user with first name "Al" was published
\* whole as "# Al: Hi", confirmed and logged
C24_Witness ==
    /\ op = "chat"
    /\ chat_in.handler = "text_message"
    /\ chat_out.published =
          <<SendTextMessage(<<"#", " ", "A", "l", ":", " ", "H", "i">>)>>
    /\ chat_out.effects = <<"publish", "reply", "log">>
    /\ chat_out.replies = <<Reply("sent to mesh")>>
    /\ db_messages # <<>>
    /\ db_messages[Len(db_messages)].direction = "to_mesh"

\* the chat-ids a Broadcast executed now would be sent to
BroadcastChats ==
    {BroadcastRecipients[i] : i \in DOMAIN BroadcastRecipients}

\* C25 as stated: once an admitted chat-id has sent a command, a text or a
\* location message, a ChatUser with that chat-id exists and is among the
\* recipients of a Broadcast.
C25_CreatedOnFirstInteraction ==
    (/\ op = "chat"
     /\ CheckAccess(chat_in.chat_id)
     /\ ~chat_out.raised)
    => /\ chat_in.chat_id \in DOMAIN db_users
       /\ chat_in.chat_id \in BroadcastChats

\* C26: every relay action is consumed exactly once.  The actions dequeued
\* are at every moment the first of those enqueued, in order, the rest being
\* in the queue, and a dequeue takes the head of the queue and nothing else;
\* while the job keeps being run and shutdown has not begun, the n-th action
\* enqueued is eventually the n-th dequeued, and every execution begun goes
\* through all its recipients, whatever failed before.
C26_ConsumedExactlyOnce ==
    /\ [](enqueued = executed \o message_queue)
    /\ [][executed' # executed =>
            /\ message_queue # <<>>
            /\ executed' = Append(executed, Head(message_queue))
            /\ message_queue' = Tail(message_queue)]_vars
    /\ \A n \in 1..MaxLiveSteps :
          (Len(enqueued) >= n) ~> (Len(executed) >= n \/ phase # "running")
    /\ (job.pc = "send") ~> (job.pc # "send" \/ phase # "running")

\* C26 witness: in one run of the job the first action had a failed send and
\* the second action was dequeued after it
C26_Witness ==
    /\ op = "job_get"
    /\ job.n = 2
    /\ Len(executed) = 2
    /\ sent # <<>>
    /\ \A i \in DOMAIN sent : ~sent[i].ok /\ sent[i].text = executed[1][2]

\* the replies hold the delivery confirmation
Confirmed(out) ==
    \E i \in 1..Len(out.replies) : out.replies[i].text = "sent to mesh"

\* C27 as stated: a text message is confirmed to its sender, and gets its
\* to_mesh log record, only when its publish succeeded.
C27_ConfirmOnlyOnSuccess ==
    [][(ChatStep /\ chat_in'.handler = "text_message")
       => ((Confirmed(chat_out') \/ db_messages' # db_messages)
           => /\ chat_out'.results # <<>>
              /\ \A i \in DOMAIN chat_out'.results :
                    chat_out'.results[i] = "MQTT_ERR_SUCCESS")]_vars

\* C28 as stated: after a NodeInfo event its sender is in the in-memory
\* registry exactly if it is in the persisted one, and the long name the
\* in-memory registry holds for it (the label of its Text broadcasts) is the
\* long name of its persisted record (the one /nodes shows).
C28_IdentityCopiesAgree ==
    [][(MqttStep /\ mqtt_in'.message_type = "nodeinfo" /\ db_fail = {}) =>
        LET n == InFrom'
        IN  /\ n \in DOMAIN mesh_nodes' <=> n \in DOMAIN db_nodes'
            /\ (n \in DOMAIN mesh_nodes' /\ n \in DOMAIN db_nodes')
               => Opt(mesh_nodes'[n]["user"], "longName") =
                     db_nodes'[n].long_name]_vars

====
